---- MODULE Spec2Model ----
(***************************************************************************)
(* A model of the Polymarket 15-minute up/down trading sessions:           *)
(*   auto_multiple_trade.py  (variant "multi":  BUY + three SELL rounds)   *)
(*   auto_trade.py           (variant "single": BUY only)                  *)
(* One WebSocketOrderBook session is modelled.  Prices are whole cents,    *)
(* times are milliseconds counted from the top of an hour.                 *)
(***************************************************************************)
EXTENDS Integers, Sequences, FiniteSets, TLC

\* ------------------------------------------------------------------ bounds
\* The session stops taking messages once this many BUY attempts were made
\* (a failed BUY leaves traded false, so attempts are otherwise unbounded).
MaxBuys == 2
\* Longest price_changes list of one structured message.
MaxChanges == 2
\* Cycles of the supervisor loop (the loop itself never ends).
MaxCycles == 3
MaxPongs == 2
\* Keep-alive probes sent and not yet answered.
MaxProbes == 2

\* --------------------------------------------------------- program constants
None == -1                \* self.current_sec = None
NameError == -2           \* get_next_quarter: timedelta is not imported
PongLimit == 5            \* if self.pong_count >= 5
SellRoundsMax == 3        \* for wait_round in range(0, 3)
Notional == 110           \* cur_size = 1.1 / float(buy_best_ask), in cents
DedupShift == 5           \* self.current_sec = now_sec+5   (multi variant)

\* --------------------------------------------------------------- input sets
Variants == {"multi", "single"}
Picks == {"UP", "DOWN"}
\* self.data = [clobTokenId1, clobTokenId2]; "tokOther" matches neither.
data == <<"tokUp", "tokDown">>
\* --goal (default 0.99), in cents
SellPrices == {99}
\* message timestamps (ms from the top of the hour):
\*   600000 -> second 600, 300 s to close
\*   600400 -> second 600, 299.6 s to close (rounds to 300)
\*  3000000 -> minute 50, 600 s to the top of the next hour
MsgTimes == {600000, 600400, 3000000}
\* readings of datetime.now() (ms from the top of the hour):
\*   600000 -> 300 s left, 899200 -> 0.8 s left (int() gives 0), 900000 -> 900 s left
WallReadings == {600000, 899200, 900000}

\* ------------------------------------------------------------ time helpers
\* int(round(x)) of Python 3 for x = ms/1000 >= 0: round half to even.
RoundHalfEven(ms) ==
    LET whole == ms \div 1000
        rem == ms % 1000
    IN  IF rem < 500 THEN whole
        ELSE IF rem > 500 THEN whole + 1
        ELSE IF whole % 2 = 0 THEN whole ELSE whole + 1

\* trading_utils.get_next_quarter(ts): the module imports only sys, so the
\* minute == 60 branch raises NameError (timedelta is undefined).
get_next_quarter(ts) ==
    LET minute == ((((ts \div 60000) % 60) \div 15) + 1) * 15
    IN  IF minute = 60 THEN NameError
        ELSE (ts \div 3600000) * 3600000 + minute * 60000

\* time_left = int(round((get_next_quarter(dt) - dt).total_seconds()))
time_left(ts) ==
    LET q == get_next_quarter(ts)
    IN  IF q = NameError THEN NameError ELSE RoundHalfEven(q - ts)

\* now_sec = int(int(message["timestamp"]) / 1000)
now_sec(ts) == ts \div 1000

\* cal_time_left of on_message: wall-clock seconds to the next quarter hour,
\* truncated by int(); the top-of-hour branch uses timedelta imported there.
cal_time_left(w) ==
    LET next_quarter == ((((w \div 60000) % 60) \div 15) + 1) * 15
        next_time == (w \div 3600000) * 3600000 + next_quarter * 60000
    IN  (next_time - w) \div 1000

\* Faulty variant of intervals: the multi-market session also evaluates in
\* the last two minutes.
intervals_from_zero(v) == {60 * k : k \in 0..14}

\* self.intervals
intervals(v) ==
    IF v = "multi" THEN {120 + 60 * k : k \in 0..11}     \* range(120, 781, 60)
    ELSE {60 * k : k \in 0..14}                         \* range(0, 841, 60)

\* data_dict, read from ./data/15min_thresholds.csv: second_idx -> threshold
\* (cents).  The file's rows are an input of the program.
ThresholdTables ==
    { [t \in {60 * k : k \in 0..15} |-> 95] }

\* self.sell_price - 0.01 >= float(buy_best_ask) in IEEE doubles.  For these
\* target prices (cents) the double sp - 0.01 is below the double (sp-1)/100,
\* so the comparison with best_ask = sp - 1 cent is false.
FloatShortfall == {3, 6, 15, 18, 21, 24, 29, 35, 41, 47, 57, 69, 82, 94}

sell_guard(sp, ask) ==
    IF ask = sp - 1 THEN sp \notin FloatShortfall ELSE ask < sp - 1

\* -------------------------------------------------------------------- state
VARIABLES
    variant,        \* which driver runs the session: "multi" or "single"
    sell_price,     \* self.sell_price (cents); unused by the single driver
    data_dict,      \* the threshold table loaded at start-up
    ledger_faulty,  \* whether appending to trade_record.csv may raise
    connected,      \* self.connected
    event_ended,    \* self.event_ended
    pong_count,     \* self.pong_count
    should_stop,    \* self.should_stop.is_set()
    ws_closed,      \* ws.close() was called
    current_sec,    \* self.current_sec
    seen_pick,      \* self.seen_pick
    traded,         \* self.traded
    orders,         \* calls of place_order, in order, with their outcome
    ledger,         \* rows appended to trade_record.csv, in order
    now,            \* last reading of the wall clock
    replies_recv,   \* history: PONG messages delivered since the last other message
    stalled,        \* history: the 5-PONG path set the stop flag
    rejected,       \* history: the window-ended path rejected a message
    last_sec,       \* history: second of the last structured message
    evals,          \* history: entries per side that reached the decision rule
                    \*          in the current run of same-second messages
    last_pass,      \* history: the last entry that passed de-duplication
    live_at,        \* history: wall-clock reading of the last message that was
                    \*          not rejected
    ping_pc,        \* position of the keep-alive thread self.thr in ping()
    late_probe,     \* history: ws.send("PING") was called with the stop flag set
    call,           \* a call of a function of the repository and its result
    sup,            \* the supervisor loop of __main__ and its threads
    sess            \* the sessions of one cycle, side by side

vars ==
    <<variant, sell_price, data_dict, ledger_faulty, connected, event_ended,
      pong_count, should_stop, ws_closed, current_sec, seen_pick, traded,
      orders, ledger, now, replies_recv, stalled, rejected, last_sec, evals,
      last_pass, live_at, ping_pc, late_probe, call, sup, sess>>

\* The fields of one session, its clock and its keep-alive thread.
sessionVars ==
    <<variant, sell_price, data_dict, ledger_faulty, connected, event_ended,
      pong_count, should_stop, ws_closed, current_sec, seen_pick, traded,
      orders, ledger, now, replies_recv, stalled, rejected, last_sec, evals,
      last_pass, live_at, ping_pc, late_probe>>

\* What a session's callbacks never touch.
otherVars == <<call, sup, sess>>

\* ------------------------------------------------------------------ messages
\* price_changes entries.  Lists of every length up to MaxChanges are built
\* from the entries that decide a trade: an UP entry at the threshold, one
\* above it, and a DOWN entry above it.
Entry(side, asset_id, best_ask) ==
    [side |-> side, asset_id |-> asset_id, best_ask |-> best_ask]

CoreChanges ==
    { Entry("BUY", data[1], 95), Entry("BUY", data[1], 96),
      Entry("BUY", data[2], 96) }

\* Entries tried alone, and ahead of a deciding entry: a best ask above the
\* sell guard, the token of another market, and a SELL entry (entries whose
\* side is not BUY are skipped whatever else they hold).
EdgeChanges ==
    { Entry("BUY", data[1], 99), Entry("BUY", "tokOther", 96),
      Entry("SELL", data[1], 96) }

ChangeLists ==
    UNION { [1..n -> CoreChanges] : n \in 0..MaxChanges }
    \cup { <<e>> : e \in EdgeChanges }
    \cup { <<e, Entry("BUY", data[1], 96)>> : e \in EdgeChanges }

\* Inbound frames: the literal PONG, a frame json.loads or ["timestamp"]
\* rejects, and structured messages.
Messages ==
    { [kind |-> "PONG", timestamp |-> 0, price_changes |-> <<>>],
      [kind |-> "BAD", timestamp |-> 0, price_changes |-> <<>>] }
    \cup { [kind |-> "JSON", timestamp |-> ts, price_changes |-> cs] :
              ts \in MsgTimes, cs \in ChangeLists }

\* ------------------------------------------------------- gateway and ledger
Order(side, token, price, ask, result) ==
    [side |-> side, token_id |-> token, price |-> price,
     size |-> <<Notional, ask>>, tif |-> "GTC", result |-> result]

Row(action, status, tl, pick, price) ==
    [action |-> action, status |-> status, time_left |-> tl, side |-> pick,
     price |-> price]

\* place_order(settings, side, token_id, price, size, tif): the gateway client
\* returns a response or raises.  Both outcomes are recorded in s.orders.
place_order(s, side, token, price, ask) ==
    { [st |-> [s EXCEPT !.orders = Append(@, Order(side, token, price, ask, r))],
       raised |-> (r = "raise")] : r \in {"ok", "raise"} }

\* with open(csv_file, mode="a") ...: writer.writerow(row)
writerow(s, row) ==
    { [st |-> [s EXCEPT !.ledger = Append(@, row)], raised |-> FALSE] }
    \cup (IF ledger_faulty THEN { [st |-> s, raised |-> TRUE] } ELSE {})

\* ------------------------------------------------- on_message: the entries
\* The handler works on the session's fields; s holds the ones the
\* price_changes loop reads or writes.  Every operator below returns the set
\* of outcomes [st |-> fields, raised |-> an exception propagates].
Normal(s) == { [st |-> s, raised |-> FALSE] }
Raise(s) == { [st |-> s, raised |-> TRUE] }

Min(a, b) == IF a < b THEN a ELSE b

\* buy_pick = "UP" if asset_id == self.data[0] else "DOWN" if ... else print(...)
buy_pick(asset_id) ==
    IF asset_id = data[1] THEN "UP"
    ELSE IF asset_id = data[2] THEN "DOWN"
    ELSE "None"

\* The action column of a ledger row; the single driver's rows have none.
action_col(v, a) == IF v = "multi" THEN a ELSE "-"

\* Faulty variant of not_traded: the guard on self.traded is dropped.
not_traded_dropped(s) == TRUE

\* if not self.traded:
not_traded(s) == ~s.traded

\* Faulty variant of returned: a call that raised is taken as returned.
returned_always(o) == TRUE

\* try: response = place_order(...) -- the call returned; except: it raised
returned(o) == ~o.raised

\* Faulty variant of buy_condition: a best ask equal to the threshold passes.
buy_condition_at_threshold(v, sp, table, tl, ask) ==
    IF v = "multi" THEN sell_guard(sp, ask) /\ ask >= table[tl]
    ELSE ask >= table[tl]

\* multi:  self.sell_price - 0.01 >= float(buy_best_ask)
\*         and float(buy_best_ask) > data_dict[time_left]
\* single: float(buy_best_ask) > data_dict[time_left]
buy_condition(v, sp, table, tl, ask) ==
    IF v = "multi" THEN sell_guard(sp, ask) /\ ask > table[tl]
    ELSE ask > table[tl]

\* Faulty variant of buy_except: no row is written for a BUY that raised.
buy_except_no_row(s, tl, pick, ask) == Normal(s)

\* except Exception as e of the BUY try: the BUY FAILED row.  traded is left
\* as it is.
buy_except(s, tl, pick, ask) ==
    writerow(s, Row(action_col(variant, "BUY"), "FAILED", tl, pick, ask))

\* self.traded = True
set_traded(s) == [s EXCEPT !.traded = TRUE]

\* except Exception as e of a SELL round: the SELL FAILED row (it records
\* buy_best_ask as price).
sell_except(s, tl, pick, ask) ==
    writerow(s, Row("SELL", "FAILED", tl, pick, ask))

\* Faulty variant of sell_round: a SELL that raised leaves the loop.
sell_round_aborting(s, token, tl, pick, ask) ==
    UNION {
        IF ~returned(o) THEN Raise(o.st)
        ELSE UNION { IF w.raised THEN sell_except(w.st, tl, pick, ask) ELSE {w}
                   : w \in writerow(o.st,
                                    Row("SELL", "SUCCESS", tl, pick, sell_price)) }
      : o \in place_order(s, "SELL", token, sell_price, ask) }

\* One round of the sell loop: time.sleep(30); place_order(SELL ...); row.
\* raised: the except branch's own append raised, which leaves the loop.
sell_round(s, token, tl, pick, ask) ==
    UNION {
        IF ~returned(o) THEN sell_except(o.st, tl, pick, ask)
        ELSE UNION { IF w.raised THEN sell_except(w.st, tl, pick, ask) ELSE {w}
                   : w \in writerow(o.st,
                                    Row("SELL", "SUCCESS", tl, pick, sell_price)) }
      : o \in place_order(s, "SELL", token, sell_price, ask) }

\* for wait_round in range(0, 3): f[k] holds the outcomes after k rounds.
sell_rounds(s, token, tl, pick, ask) ==
    LET f[k \in 0..SellRoundsMax] ==
            IF k = 0 THEN Normal(s)
            ELSE UNION { IF r.raised THEN {r}
                         ELSE sell_round(r.st, token, tl, pick, ask)
                       : r \in f[k - 1] }
    IN  f[SellRoundsMax]

\* Faulty variant of after_buy: the SELL size is computed from the sell price.
after_buy_resized(s, token, tl, pick, ask) ==
    IF variant = "multi"
    THEN sell_rounds(set_traded(s), token, tl, pick, sell_price)
    ELSE Normal(set_traded(s))

\* What follows the BUY SUCCESS row: traded is set, and the multi driver runs
\* its sell rounds inside the same try.
after_buy(s, token, tl, pick, ask) ==
    IF variant = "multi" THEN sell_rounds(set_traded(s), token, tl, pick, ask)
    ELSE Normal(set_traded(s))

\* try: place_order(BUY ...); row; traded = True; [sell rounds]  except: row
trade(s, ch, tl, pick) ==
    UNION {
        IF ~returned(o) THEN buy_except(o.st, tl, pick, ch.best_ask)
        ELSE UNION {
            IF w.raised THEN buy_except(w.st, tl, pick, ch.best_ask)
            ELSE UNION { IF r.raised THEN buy_except(r.st, tl, pick, ch.best_ask)
                         ELSE {r}
                       : r \in after_buy(w.st, ch.asset_id, tl, pick, ch.best_ask) }
          : w \in writerow(o.st, Row(action_col(variant, "BUY"), "SUCCESS",
                                     tl, pick, ch.best_ask)) }
      : o \in place_order(s, "BUY", ch.asset_id, ch.best_ask, ch.best_ask) }

\* Faulty variant of decide: the rule sits inside the UP branch, as the print
\* of a DOWN entry does.
decide_up_only(s, ch, tl, pick) ==
    IF pick = "UP" /\ not_traded(s) /\ tl \in intervals(variant)
       /\ buy_condition(variant, sell_price, data_dict, tl, ch.best_ask)
    THEN trade(s, ch, tl, pick)
    ELSE Normal(s)

\* The decision rule.  multi:  if not traded: if time_left in intervals: if cond
\*                     single: if time_left in intervals: if not traded: if cond
decide(s, ch, tl, pick) ==
    IF not_traded(s) /\ tl \in intervals(variant)
       /\ buy_condition(variant, sell_price, data_dict, tl, ch.best_ask)
    THEN trade(s, ch, tl, pick)
    ELSE Normal(s)

\* history: one more entry of this side reached the decision rule
count_eval(s, pick) == [s EXCEPT !.evals[pick] = Min(@ + 1, 2)]

\* history: the entry ch of a message stamped ts passed de-duplication while
\* traded was ~fresh; calls and rows are filled in when its handling ends.
NoPass == [ts |-> None, ask |-> None, pick |-> "None", fresh |-> FALSE,
           calls |-> 0, rows |-> 0]

note_pass(s, ch, ts, pick) ==
    [s EXCEPT !.last_pass = [ts |-> ts, ask |-> ch.best_ask, pick |-> pick,
                             fresh |-> ~s.traded, calls |-> 0, rows |-> 0]]

\* history: the place_order calls and ledger rows made since s0
note_effects(s0, o) ==
    [o EXCEPT !.st.last_pass.calls = Len(o.st.orders) - Len(s0.orders),
              !.st.last_pass.rows = Len(o.st.ledger) - Len(s0.ledger)]

\* One iteration of  for change in message["price_changes"].
process_change(s, ch, ts) ==
    IF ch.side # "BUY" THEN Normal(s)
    ELSE LET pick == buy_pick(ch.asset_id) IN
         IF pick = "None" THEN Raise(s)            \* self.seen_pick[None]: KeyError
         ELSE IF s.seen_pick[pick] THEN Normal(s)
         ELSE LET s1 == note_pass([s EXCEPT !.seen_pick[pick] = TRUE],
                                   ch, ts, pick)
                  tl == time_left(ts)
              IN  IF tl = NameError THEN Raise(s1)
                  ELSE { note_effects(s1, o) :
                           o \in decide(count_eval(s1, pick), ch, tl, pick) }

\* for change in message["price_changes"]: f[i] holds the outcomes after i
\* entries; an exception leaves the loop.
process_changes(s, cs, ts) ==
    LET f[i \in 0..Len(cs)] ==
            IF i = 0 THEN Normal(s)
            ELSE UNION { IF o.raised THEN {o} ELSE process_change(o.st, cs[i], ts)
                       : o \in f[i - 1] }
    IN  f[Len(cs)]

\* ------------------------------------------------------------ construction
\* No function call is pending, no supervisor loop and no second session runs.
NoCall == [op |-> "none"]
NoSup == [pc |-> "off"]
NoSess == <<>>

\* WebSocketOrderBook.__init__ and the module-level set-up of the driver.
InitSession ==
    /\ variant \in Variants
    /\ sell_price \in (IF variant = "multi" THEN SellPrices ELSE {None})
    /\ data_dict \in ThresholdTables
    /\ ledger_faulty = FALSE
    /\ connected = FALSE
    /\ event_ended = FALSE
    /\ pong_count = 0
    /\ should_stop = FALSE
    /\ ws_closed = FALSE
    /\ current_sec = None
    /\ seen_pick = [p \in Picks |-> FALSE]
    /\ traded = FALSE
    /\ orders = <<>>
    /\ ledger = <<>>
    /\ now = 600000
    /\ replies_recv = 0
    /\ stalled = FALSE
    /\ rejected = FALSE
    /\ last_sec = None
    /\ evals = [p \in Picks |-> 0]
    /\ last_pass = NoPass
    /\ live_at = None
    /\ ping_pc = "none"
    /\ late_probe = FALSE

Init ==
    /\ InitSession
    /\ call = NoCall
    /\ sup = NoSup
    /\ sess = NoSess

\* ----------------------------------------------------------------- handlers
BuyAttempts(os) == Cardinality({ i \in 1..Len(os) : os[i].side = "BUY" })

\* on_open on the market channel: the subscribe frame is sent.
on_open ==
    /\ ~connected
    /\ ~ws_closed
    /\ connected' = TRUE
    /\ ping_pc' = "test"           \* self.thr = threading.Thread(...).start()
    /\ UNCHANGED <<variant, sell_price, data_dict, ledger_faulty, event_ended,
                   pong_count, should_stop, ws_closed, current_sec, seen_pick,
                   traded, orders, ledger, now, replies_recv, stalled, rejected,
                   last_sec, evals, last_pass>>
    /\ UNCHANGED <<live_at, late_probe, otherVars>>

\* The wall clock moves on between two readings of datetime.now().
tick ==
    /\ \E w \in WallReadings : w > now /\ now' = w
    /\ UNCHANGED <<variant, sell_price, data_dict, ledger_faulty, connected,
                   event_ended, pong_count, should_stop, ws_closed, current_sec,
                   seen_pick, traded, orders, ledger, replies_recv, stalled,
                   rejected, last_sec, evals, last_pass>>
    /\ UNCHANGED <<live_at, ping_pc, late_probe, otherVars>>

\* Faulty variant of window_check: the clock never sets the flag.
window_check_never(ended, w) == ended

\* if cal_time_left == 0: self.event_ended = True
window_check(ended, w) == ended \/ cal_time_left(w) = 0

\* Faulty variant of pong_update: a reply clears the count as well.
pong_update_cleared(count, is_pong) == 0

\* Faulty variant of pong_update: another message leaves the count.
pong_update_no_reset(count, is_pong) == IF is_pong THEN count + 1 ELSE count

\* self.pong_count += 1   /   self.pong_count = 0
pong_update(count, is_pong) == IF is_pong THEN count + 1 ELSE 0

\* Faulty variant of pong_stall: the sixth reply stops the session.
pong_stall_late(count) == count > PongLimit

\* if self.pong_count >= 5
pong_stall(count) == count >= PongLimit

\* if self.current_sec != now_sec: the new value of self.current_sec
bucket_sec(v, cur, ns) ==
    IF cur # ns THEN (IF v = "multi" THEN ns + DedupShift ELSE ns) ELSE cur

\* ... and of self.seen_pick
bucket_seen(cur, ns, seen) ==
    IF cur # ns THEN [p \in Picks |-> FALSE] ELSE seen

\* history of a delivered frame
recv_update(n, is_pong) == IF is_pong THEN n + 1 ELSE 0

\* else-branch of  if not self.event_ended:  the message is rejected.
reject_message ==
    /\ should_stop' = TRUE
    /\ ws_closed' = TRUE
    /\ rejected' = TRUE
    /\ UNCHANGED <<event_ended, pong_count, current_sec, seen_pick, traded,
                   orders, ledger, stalled, last_sec, evals, last_pass>>

\* if "PONG" in message:
handle_pong ==
    /\ event_ended' = window_check(event_ended, now)
    /\ pong_count' = pong_update(pong_count, TRUE)
    /\ IF pong_stall(pong_count')
       THEN should_stop' = TRUE /\ ws_closed' = TRUE /\ stalled' = TRUE
       ELSE UNCHANGED <<should_stop, ws_closed, stalled>>
    /\ UNCHANGED <<current_sec, seen_pick, traded, orders, ledger, rejected,
                   last_sec, evals, last_pass>>

\* Faulty variant of handle_bad: the except branch ends the session.
handle_bad_closing ==
    /\ event_ended' = window_check(event_ended, now)
    /\ pong_count' = pong_update(pong_count, FALSE)
    /\ should_stop' = TRUE
    /\ ws_closed' = TRUE
    /\ UNCHANGED <<current_sec, seen_pick, traded, orders, ledger, stalled,
                   rejected, last_sec, evals, last_pass>>

\* json.loads(message) or message["timestamp"] raises: except Exception.
handle_bad ==
    /\ event_ended' = window_check(event_ended, now)
    /\ pong_count' = pong_update(pong_count, FALSE)
    /\ UNCHANGED <<should_stop, ws_closed, current_sec, seen_pick, traded,
                   orders, ledger, stalled, rejected, last_sec, evals, last_pass>>

\* A structured message: bucket, then the price_changes loop.
handle_json(msg) ==
    LET ns == now_sec(msg.timestamp)
        s0 == [seen_pick |-> bucket_seen(current_sec, ns, seen_pick),
               traded |-> traded, orders |-> orders, ledger |-> ledger,
               evals |-> IF last_sec # ns THEN [p \in Picks |-> 0] ELSE evals,
               last_pass |-> last_pass]
    IN  /\ event_ended' = window_check(event_ended, now)
        /\ pong_count' = pong_update(pong_count, FALSE)
        /\ current_sec' = bucket_sec(variant, current_sec, ns)
        /\ last_sec' = ns
        /\ \E r \in process_changes(s0, msg.price_changes, msg.timestamp) :
              /\ seen_pick' = r.st.seen_pick
              /\ traded' = r.st.traded
              /\ orders' = r.st.orders
              /\ ledger' = r.st.ledger
              /\ evals' = r.st.evals
              /\ last_pass' = r.st.last_pass
        /\ UNCHANGED <<should_stop, ws_closed, stalled, rejected>>

\* WebSocketOrderBook.on_message(ws, message); datetime.now() reads now.
on_message(msg) ==
    /\ connected
    /\ ~ws_closed
    /\ BuyAttempts(orders) < MaxBuys
    /\ replies_recv' = recv_update(replies_recv, msg.kind = "PONG")
    /\ IF event_ended THEN reject_message
       ELSE CASE msg.kind = "PONG" -> handle_pong
              [] msg.kind = "BAD" -> handle_bad
              [] OTHER -> handle_json(msg)
    /\ live_at' = IF event_ended THEN live_at ELSE now
    /\ UNCHANGED <<variant, sell_price, data_dict, ledger_faulty, connected, now>>
    /\ UNCHANGED <<ping_pc, late_probe, otherVars>>

\* WebSocketOrderBook.on_error
on_error ==
    /\ connected
    /\ ~ws_closed
    /\ should_stop' = TRUE
    /\ ws_closed' = TRUE
    /\ UNCHANGED <<variant, sell_price, data_dict, ledger_faulty, connected,
                   event_ended, pong_count, current_sec, seen_pick, traded,
                   orders, ledger, now, replies_recv, stalled, rejected,
                   last_sec, evals, last_pass>>
    /\ UNCHANGED <<live_at, ping_pc, late_probe, otherVars>>

\* WebSocketOrderBook.on_close
on_close ==
    /\ connected
    /\ should_stop' = TRUE
    /\ ws_closed' = TRUE
    /\ UNCHANGED <<variant, sell_price, data_dict, ledger_faulty, connected,
                   event_ended, pong_count, current_sec, seen_pick, traded,
                   orders, ledger, now, replies_recv, stalled, rejected,
                   last_sec, evals, last_pass>>
    /\ UNCHANGED <<live_at, ping_pc, late_probe, otherVars>>

\* ----------------------------------------------------------- specifications
\* The whole session: every frame, the clock, the transport callbacks.
Next ==
    \/ on_open
    \/ \E msg \in Messages : on_message(msg)
    \/ tick
    \/ on_error
    \/ on_close

Spec == Init /\ [][Next]_vars

\* The trading protocol: the feed delivers structured and undecodable frames.
\* Liveness replies and the clock only end a session; on_error and on_close
\* end it here.
TradeMessages == { m \in Messages : m.kind # "PONG" }

NextTrade ==
    \/ on_open
    \/ \E msg \in TradeMessages : on_message(msg)
    \/ on_error
    \/ on_close

SpecTrade == Init /\ [][NextTrade]_vars

\* The liveness protocol: liveness replies, undecodable frames, a structured
\* message, and the clock.
LiveMessages ==
    { m \in Messages : m.kind # "JSON" \/
                       (m.timestamp = 600000 /\ Len(m.price_changes) = 0) }

NextLive ==
    \/ on_open
    \/ \E msg \in LiveMessages : on_message(msg)
    \/ tick
    \/ on_error
    \/ on_close

SpecLive == Init /\ [][NextLive]_vars

\* ------------------------------------------------------------ cycle suffix
\* The suffix of a slug is a string of decimal digits, here the sequence of
\* its digits.  int(s) and str(n) are Python's conversions on such strings.
int(s) ==
    LET f[i \in 0..Len(s)] == IF i = 0 THEN 0 ELSE f[i - 1] * 10 + s[i]
    IN  f[Len(s)]

str(n) ==
    LET len == CHOOSE k \in 1..10 :
                   /\ (k = 1 \/ n \div 10^(k - 1) > 0)
                   /\ (k = 10 \/ n \div 10^k = 0)
    IN  [i \in 1..len |-> (n \div 10^(len - i)) % 10]

\* Faulty variant of get_next_suffix: 900 * (r - 1) is added to the suffix given.
get_next_suffix_from_r(r, suffix) ==
    IF r = 1 THEN suffix ELSE str(int(suffix) + 900 * (r - 1))

\* Faulty variant of get_next_suffix: the suffix is never advanced.
get_next_suffix_unchanged(r, suffix) == suffix

\* trading_utils.get_next_suffix(r, suffix); r < 1 falls through to None.
get_next_suffix(r, suffix) ==
    IF r = 1 THEN suffix
    ELSE IF r > 1 THEN str(int(suffix) + 900)
    ELSE None

\* "1768539600", the start suffix written in both drivers.
DefaultSuffix == <<1, 7, 6, 8, 5, 3, 9, 6, 0, 0>>

\* Arguments of a call: short digit strings (leading zeros, carries into a
\* longer string) and the default.
SuffixInputs ==
    UNION { [1..n -> {0, 1, 9}] : n \in 1..3 } \cup {DefaultSuffix}

SuffixCalls ==
    { [op |-> "get_next_suffix", r |-> r, suffix |-> s, done |-> FALSE,
       out |-> <<>>] : r \in 1..MaxCycles, s \in SuffixInputs }

InitSuffix ==
    /\ InitSession /\ variant = "multi"
    /\ call \in SuffixCalls
    /\ sup = NoSup
    /\ sess = NoSess

call_get_next_suffix ==
    /\ call.op = "get_next_suffix"
    /\ ~call.done
    /\ call' = [call EXCEPT !.out = get_next_suffix(call.r, call.suffix),
                            !.done = TRUE]
    /\ UNCHANGED <<sessionVars, sup, sess>>

NextSuffix == call_get_next_suffix

SpecSuffix == InitSuffix /\ [][NextSuffix]_vars

\* ------------------------------------------------------- keep-alive thread
\* WebSocketOrderBook.ping runs in the thread on_open starts:
\*     while not self.should_stop.is_set(): ws.send("PING"); time.sleep(5)
\* Each of its three steps is one action; the callbacks run in another thread
\* and may come between any two of them.
ping_test ==
    /\ ping_pc = "test"
    /\ ping_pc' = IF should_stop THEN "done" ELSE "send"
    /\ UNCHANGED <<variant, sell_price, data_dict, ledger_faulty, connected,
                   event_ended, pong_count, should_stop, ws_closed, current_sec,
                   seen_pick, traded, orders, ledger, now, replies_recv, stalled,
                   rejected, last_sec, evals, last_pass, live_at, late_probe,
                   otherVars>>

\* ws.send("PING"): on a connection that was closed the call raises, which
\* ends the thread, or returns.
ping_send ==
    /\ ping_pc = "send"
    /\ late_probe' = (late_probe \/ should_stop)
    /\ ping_pc' \in (IF ws_closed THEN {"sleep", "done"} ELSE {"sleep"})
    /\ UNCHANGED <<variant, sell_price, data_dict, ledger_faulty, connected,
                   event_ended, pong_count, should_stop, ws_closed, current_sec,
                   seen_pick, traded, orders, ledger, now, replies_recv, stalled,
                   rejected, last_sec, evals, last_pass, live_at, otherVars>>

\* time.sleep(5) returns.
ping_sleep ==
    /\ ping_pc = "sleep"
    /\ ping_pc' = "test"
    /\ UNCHANGED <<variant, sell_price, data_dict, ledger_faulty, connected,
                   event_ended, pong_count, should_stop, ws_closed, current_sec,
                   seen_pick, traded, orders, ledger, now, replies_recv, stalled,
                   rejected, last_sec, evals, last_pass, live_at, late_probe,
                   otherVars>>

NextKeepAlive ==
    \/ on_open
    \/ \E msg \in LiveMessages : on_message(msg)
    \/ tick
    \/ on_error
    \/ on_close
    \/ ping_test
    \/ ping_send
    \/ ping_sleep

SpecKeepAlive == Init /\ [][NextKeepAlive]_vars

\* ---------------------------------------------------------- supervisor loop
\* __main__ of both drivers.  sup holds the loop's variables r and suffix, its
\* position, the coins still to resolve in this cycle (todo), and per coin
\* the state of the thread started for it (status, and the cycle cyc it was
\* started in).  history: start, attempt (cycle of the coin's last
\* resolution), failed / prev_failed (it failed in this / the previous
\* cycle), used (cycle and suffix of every slug that was resolved).
Coins == {"BTC", "ETH", "SOL", "XRP"}

\* for coin, slug_prefix in coins.items(); the single driver tracks BTC only.
coins(v) == IF v = "multi" THEN <<"BTC", "ETH", "SOL", "XRP">> ELSE <<"BTC">>

\* --suffix, or the default
StartSuffixes == {DefaultSuffix, <<9, 9>>}

InitSup ==
    /\ InitSession
    /\ call = NoCall
    /\ sess = NoSess
    /\ \E s \in StartSuffixes :
          sup = [pc |-> "next", r |-> 1, suffix |-> s, start |-> s,
                 todo |-> <<>>,
                 status |-> [c \in Coins |-> "none"],
                 cyc |-> [c \in Coins |-> 0],
                 attempt |-> [c \in Coins |-> 0],
                 failed |-> [c \in Coins |-> FALSE],
                 prev_failed |-> [c \in Coins |-> FALSE],
                 used |-> {}]

\* while True: suffix = get_next_suffix(r, suffix); threads = []
sup_next ==
    /\ sup.pc = "next"
    /\ sup' = [sup EXCEPT !.pc = "resolve",
                          !.suffix = get_next_suffix(sup.r, sup.suffix),
                          !.todo = coins(variant),
                          !.status = [c \in Coins |-> "none"],
                          !.prev_failed = sup.failed,
                          !.failed = [c \in Coins |-> FALSE]]
    /\ UNCHANGED <<sessionVars, call, sess>>

\* get_clobTokenIds_from_slug(slug) returned: the session is constructed and
\* its thread started.
sup_resolve_ok ==
    /\ sup.pc = "resolve"
    /\ sup.todo # <<>>
    /\ LET c == Head(sup.todo) IN
          sup' = [sup EXCEPT !.todo = Tail(sup.todo),
                             !.status[c] = "running",
                             !.cyc[c] = sup.r,
                             !.attempt[c] = sup.r,
                             !.used = @ \cup {<<sup.r, sup.suffix>>}]
    /\ UNCHANGED <<sessionVars, call, sess>>

\* Faulty variant of after_failure: a failure ends the cycle's for loop.
after_failure_break(todo) == <<>>

\* except Exception as e: ... continue
after_failure(todo) == Tail(todo)

\* get_clobTokenIds_from_slug(slug) raised.  The multi driver catches it and
\* goes on with the next coin; the single driver has no try, the exception
\* ends the main thread.
sup_resolve_fail ==
    /\ sup.pc = "resolve"
    /\ sup.todo # <<>>
    /\ LET c == Head(sup.todo)
           s1 == [sup EXCEPT !.attempt[c] = sup.r,
                             !.failed[c] = TRUE,
                             !.used = @ \cup {<<sup.r, sup.suffix>>}]
       IN  sup' = IF variant = "multi"
                  THEN [s1 EXCEPT !.todo = after_failure(sup.todo)]
                  ELSE [s1 EXCEPT !.pc = "crashed"]
    /\ UNCHANGED <<sessionVars, call, sess>>

\* market_connection.run returns: the session's run_forever has ended.
session_exit(c) ==
    /\ sup.pc # "off"
    /\ sup.status[c] = "running"
    /\ sup' = [sup EXCEPT !.status[c] = "done"]
    /\ UNCHANGED <<sessionVars, call, sess>>

\* Faulty variant of all_joined: the loop goes on without waiting.
all_joined_nowait(status) == TRUE

\* for t in threads: t.join()   (t.join() in the single driver)
all_joined(status) == \A c \in Coins : status[c] # "running"

\* The joins return; r += 1.
sup_join ==
    /\ sup.pc = "resolve"
    /\ sup.todo = <<>>
    /\ all_joined(sup.status)
    /\ sup.r < MaxCycles
    /\ sup' = [sup EXCEPT !.pc = "next", !.r = sup.r + 1]
    /\ UNCHANGED <<sessionVars, call, sess>>

NextSup ==
    \/ sup_next
    \/ sup_resolve_ok
    \/ sup_resolve_fail
    \/ \E c \in Coins : session_exit(c)
    \/ sup_join

SpecSup == InitSup /\ [][NextSup]_vars

\* ------------------------------------------------ sessions of one cycle
\* Two WebSocketOrderBook instances of one cycle, each run by its own thread.
\* sess[i] holds the attributes __init__ gives instance i, and where its
\* thread stands: pc is "sell" while it is inside the sell loop of a message
\* that bought (it sleeps 30 s before each round), todo holds what the rest
\* of that handler will have done.  The module's globals (variant,
\* sell_price, data_dict) and the clock are common to both.
SessionIds == {1, 2}

NoTodo == [orders |-> <<>>, ledger |-> <<>>]

NewSession ==
    [connected |-> FALSE, event_ended |-> FALSE, pong_count |-> 0,
     should_stop |-> FALSE, ws_closed |-> FALSE, current_sec |-> None,
     seen_pick |-> [p \in Picks |-> FALSE], traded |-> FALSE,
     orders |-> <<>>, ledger |-> <<>>,
     evals |-> [p \in Picks |-> 0], last_pass |-> NoPass,
     pc |-> "idle", todo |-> NoTodo]

\* Faulty variant of slot: the attributes are the class's, not the instance's.
slot_of_class(i) == 1

\* self.<attribute> of instance i is instance i's own.
slot(i) == i

\* Faulty variant of session_message: the remaining time of an entry is taken
\* from the wall clock (the statement commented out before time_left = ...).
session_message_by_clock(s, msg, w) ==
    IF s.event_ended
    THEN { [s EXCEPT !.should_stop = TRUE, !.ws_closed = TRUE] }
    ELSE LET s1 == [s EXCEPT
                      !.event_ended = window_check(s.event_ended, w),
                      !.pong_count = pong_update(s.pong_count, msg.kind = "PONG")]
             ns == now_sec(msg.timestamp)
             s2 == [s1 EXCEPT
                      !.current_sec = bucket_sec(variant, s.current_sec, ns),
                      !.seen_pick = bucket_seen(s.current_sec, ns, s.seen_pick)]
         IN  CASE msg.kind = "PONG" ->
                    { IF pong_stall(s1.pong_count)
                      THEN [s1 EXCEPT !.should_stop = TRUE, !.ws_closed = TRUE]
                      ELSE s1 }
               [] msg.kind = "BAD" -> { s1 }
               [] OTHER ->
                    { o.st : o \in process_changes(s2, msg.price_changes, w) }

\* on_message of one instance, start to end, on its attributes s; w is the
\* reading of datetime.now().
session_message(s, msg, w) ==
    IF s.event_ended
    THEN { [s EXCEPT !.should_stop = TRUE, !.ws_closed = TRUE] }
    ELSE LET s1 == [s EXCEPT
                      !.event_ended = window_check(s.event_ended, w),
                      !.pong_count = pong_update(s.pong_count, msg.kind = "PONG")]
             ns == now_sec(msg.timestamp)
             s2 == [s1 EXCEPT
                      !.current_sec = bucket_sec(variant, s.current_sec, ns),
                      !.seen_pick = bucket_seen(s.current_sec, ns, s.seen_pick)]
         IN  CASE msg.kind = "PONG" ->
                    { IF pong_stall(s1.pong_count)
                      THEN [s1 EXCEPT !.should_stop = TRUE, !.ws_closed = TRUE]
                      ELSE s1 }
               [] msg.kind = "BAD" -> { s1 }
               [] OTHER ->
                    { o.st : o \in process_changes(s2, msg.price_changes,
                                                    msg.timestamp) }

\* The thread of a handler that bought, at its first time.sleep(30): the BUY
\* and its row are done, the sell rounds are still to come.
at_first_sleep(s, done) ==
    LET b == CHOOSE k \in (Len(s.orders) + 1)..Len(done.orders) :
                 done.orders[k].side = "BUY" /\ done.orders[k].result = "ok"
    IN  [done EXCEPT
           !.orders = SubSeq(done.orders, 1, b),
           !.ledger = SubSeq(done.ledger, 1, Len(s.ledger) + b - Len(s.orders)),
           !.pc = "sell",
           !.todo = [orders |-> done.orders, ledger |-> done.ledger]]

PairMessages ==
    { [kind |-> "PONG", timestamp |-> 0, price_changes |-> <<>>],
      [kind |-> "JSON", timestamp |-> 600000,
       price_changes |-> <<Entry("BUY", data[1], 96)>>] }

InitPair ==
    /\ InitSession /\ variant = "multi"
    /\ call = NoCall
    /\ sup = NoSup
    /\ sess = [i \in SessionIds |-> NewSession]

\* on_open of instance i
pair_open(i) ==
    /\ ~sess[slot(i)].connected
    /\ ~sess[slot(i)].ws_closed
    /\ sess' = [sess EXCEPT ![slot(i)].connected = TRUE]
    /\ UNCHANGED <<sessionVars, call, sup>>

\* on_message of instance i, up to its end or to its first time.sleep(30)
pair_message(i, msg) ==
    LET s == sess[slot(i)] IN
    /\ s.connected
    /\ ~s.ws_closed
    /\ s.pc = "idle"
    /\ BuyAttempts(s.orders) < MaxBuys
    /\ msg.kind = "PONG" => s.pong_count < MaxPongs
    /\ \E done \in session_message(s, msg, now) :
          sess' = [sess EXCEPT ![slot(i)] =
                      IF done.traded /\ ~s.traded /\ variant = "multi"
                      THEN at_first_sleep(s, done)
                      ELSE done]
    /\ UNCHANGED <<sessionVars, call, sup>>

\* A time.sleep(30) of instance i returns and the round's SELL is placed and
\* recorded; after the third round the handler returns.
pair_sell(i) ==
    LET s == sess[slot(i)]
        n == Len(s.orders) + 1
    IN
    /\ s.pc = "sell"
    /\ sess' = [sess EXCEPT ![slot(i)] =
                  [s EXCEPT
                     !.orders = SubSeq(s.todo.orders, 1, n),
                     !.ledger = SubSeq(s.todo.ledger, 1, Len(s.ledger) + 1),
                     !.pc = IF n = Len(s.todo.orders) THEN "idle" ELSE "sell",
                     !.todo = IF n = Len(s.todo.orders) THEN NoTodo ELSE @]]
    /\ UNCHANGED <<sessionVars, call, sup>>

\* on_error of instance i
pair_error(i) ==
    /\ sess[slot(i)].connected
    /\ ~sess[slot(i)].ws_closed
    /\ sess[slot(i)].pc = "idle"
    /\ sess' = [sess EXCEPT ![slot(i)].should_stop = TRUE,
                            ![slot(i)].ws_closed = TRUE]
    /\ UNCHANGED <<sessionVars, call, sup>>

NextPair ==
    \/ \E i \in SessionIds : pair_open(i)
    \/ \E i \in SessionIds : \E msg \in PairMessages : pair_message(i, msg)
    \/ \E i \in SessionIds : pair_sell(i)
    \/ \E i \in SessionIds : pair_error(i)
    \/ tick

SpecPair == InitPair /\ [][NextPair]_vars

\* ------------------------------------------------- trading.py: place_order
\* src/trading.py's place_order(client, token_id, side, price, size).  Prices
\* are in cents (1.0 is 100); a string is the sequence of its characters; a
\* token id is an int (field n), a string (field v) or None.
DigitChars == <<"0", "1", "2", "3", "4", "5", "6", "7", "8", "9">>
HexChars == DigitChars \o <<"a", "b", "c", "d", "e", "f">>

IntToken(n) == [type |-> "int", n |-> n, v |-> <<>>]
StrToken(s) == [type |-> "str", n |-> 0, v |-> s]
NoneToken == [type |-> "NoneType", n |-> 0, v |-> <<>>]

\* str.isdigit()
isdigit(s) ==
    Len(s) > 0 /\ \A i \in 1..Len(s) : \E d \in 1..10 : s[i] = DigitChars[d]

\* str.startswith("0x")
startswith_0x(s) == Len(s) >= 2 /\ s[1] = "0" /\ s[2] = "x"

\* The digits of a string that isdigit() accepts, for int().
digits_of(s) ==
    [i \in 1..Len(s) |-> (CHOOSE d \in 1..10 : s[i] = DigitChars[d]) - 1]

\* hex(n): "0x" and the hexadecimal digits of n, "-" in front when n < 0.
hex(n) ==
    LET a == IF n < 0 THEN 0 - n ELSE n
        len == CHOOSE k \in 1..7 :
                   /\ (k = 1 \/ a \div 16^(k - 1) > 0)
                   /\ (k = 7 \/ a \div 16^k = 0)
        body == [i \in 1..len |-> HexChars[((a \div 16^(len - i)) % 16) + 1]]
    IN  (IF n < 0 THEN <<"-">> ELSE <<>>) \o <<"0", "x">> \o body

\* str.upper() on the sides tried
upper(s) ==
    CASE s = "buy" -> "BUY"
      [] s = "Buy" -> "BUY"
      [] s = "sell" -> "SELL"
      [] s = "hold" -> "HOLD"
      [] OTHER -> s

\* Faulty variant of side_ok: the side is compared as written.
side_ok_exact(side) == side \in {"BUY", "SELL"}

\* not (side.upper() not in {"BUY", "SELL"})
side_ok(side) == upper(side) \in {"BUY", "SELL"}

\* The outcomes of one call: whether it raised, and the calls it made on the
\* gateway client before.  A call on the client returns or raises.
trading_place_order(token_id, side, price, size) ==
    IF price <= 0 \/ price > 100 THEN { [raised |-> TRUE, client |-> <<>>] }
    ELSE IF size <= 0 THEN { [raised |-> TRUE, client |-> <<>>] }
    ELSE IF ~side_ok(side) THEN { [raised |-> TRUE, client |-> <<>>] }
    ELSE IF /\ token_id.type # "int"
            /\ ~(token_id.type = "str" /\ isdigit(token_id.v))
            /\ (token_id.type # "str" \/ ~startswith_0x(token_id.v))
         THEN { [raised |-> TRUE, client |-> <<>>] }
    ELSE LET tok == IF token_id.type = "int" THEN hex(token_id.n)
                    ELSE IF isdigit(token_id.v)
                         THEN hex(int(digits_of(token_id.v)))
                         ELSE token_id.v
             args == [token_id |-> tok, price |-> price, size |-> size,
                      side |-> IF upper(side) = "BUY" THEN "BUY" ELSE "SELL"]
             size_q == [fn |-> "get_tick_size", arg |-> [token_id |-> tok]]
             post == [fn |-> "create_and_post_order", arg |-> args]
         IN  { [raised |-> TRUE, client |-> <<size_q>>],
               [raised |-> TRUE, client |-> <<size_q, post>>],
               [raised |-> FALSE, client |-> <<size_q, post>>] }

OrderPrices == {-1, 0, 1, 100, 101}
OrderSizes == {-5, 0, 5}
OrderSides == {"BUY", "SELL", "buy", "Buy", "sell", "hold", "HOLD", ""}
OrderTokens ==
    { IntToken(255), IntToken(0), IntToken(-5),
      StrToken(<<"4", "2">>), StrToken(<<"0", "x", "2", "a">>),
      StrToken(<<"0", "X", "2", "a">>), StrToken(<<"2", "a">>),
      StrToken(<<>>), NoneToken }

OrderCalls ==
    { [op |-> "place_order", token_id |-> k, side |-> sd, price |-> p,
       size |-> z, done |-> FALSE, out |-> [raised |-> FALSE, client |-> <<>>]] :
         k \in OrderTokens, sd \in OrderSides, p \in OrderPrices,
         z \in OrderSizes }

InitOrder ==
    /\ InitSession /\ variant = "multi"
    /\ call \in OrderCalls
    /\ sup = NoSup
    /\ sess = NoSess

call_place_order ==
    /\ call.op = "place_order"
    /\ ~call.done
    /\ \E o \in trading_place_order(call.token_id, call.side, call.price,
                                     call.size) :
          call' = [call EXCEPT !.out = o, !.done = TRUE]
    /\ UNCHANGED <<sessionVars, sup, sess>>

NextOrder == call_place_order

SpecOrder == InitOrder /\ [][NextOrder]_vars

\* The end of the window: the frames of SpecLive and a structured message
\* stamped 0.4 s before the quarter hour (its time_left rounds to 0) whose one
\* entry is not above the threshold.
WindowMessages ==
    LiveMessages
    \cup { [kind |-> "JSON", timestamp |-> 899600,
            price_changes |-> <<Entry("BUY", data[1], 95)>>] }

NextWindow ==
    \/ on_open
    \/ \E msg \in WindowMessages : on_message(msg)
    \/ tick
    \/ on_error
    \/ on_close

SpecWindow == Init /\ [][NextWindow]_vars

\* ------------------------------------------------------- slug resolution
\* get_clobTokenIds_from_slug(slug): the event the gamma API returns for the
\* slug is a title and a list of markets, each with its clobTokenIds list
\* and its conditionId.  A result is [raised, value]; value is the tuple
\* returned, <<>> when the call raised.
ResolveFailed == [raised |-> TRUE, value |-> <<>>]

\* Faulty variant of tokens_ok: the assertion is dropped.
tokens_ok_unchecked(ids) == TRUE

\* assert len(clobTokenIds) == 2
tokens_ok(ids) == Len(ids) = 2

\* for i, market in enumerate(markets): f[i] holds the loop's variables after
\* i markets: whether the assertion failed, and the last market fetched.
get_clobTokenIds_from_slug(event) ==
    LET markets == event.markets
        f[i \in 0..Len(markets)] ==
            IF i = 0 THEN [raised |-> FALSE, bound |-> FALSE,
                           clobTokenIds |-> <<>>, conditionId |-> "none"]
            ELSE IF f[i - 1].raised THEN f[i - 1]
            ELSE [raised |-> ~tokens_ok(markets[i].clobTokenIds),
                  bound |-> TRUE,
                  clobTokenIds |-> markets[i].clobTokenIds,
                  conditionId |-> markets[i].conditionId]
        end == f[Len(markets)]
    IN  IF end.raised THEN ResolveFailed                \* AssertionError
        ELSE IF ~end.bound THEN ResolveFailed           \* UnboundLocalError
        ELSE IF Len(end.clobTokenIds) < 2 THEN ResolveFailed   \* IndexError
        ELSE [raised |-> FALSE,
              value |-> <<end.clobTokenIds[1], end.clobTokenIds[2],
                          end.conditionId, event.title>>]

\* Events: none, one or two markets, each with one to three token ids.
TokenLists == UNION { [1..n -> {"tokUp", "tokDown"}] : n \in 1..3 }

Markets ==
    { [clobTokenIds |-> ids, conditionId |-> "cond"] : ids \in TokenLists }

Events ==
    { [title |-> "title", markets |-> ms] :
        ms \in UNION { [1..n -> Markets] : n \in 0..2 } }

ResolveCalls ==
    { [op |-> "get_clobTokenIds_from_slug", event |-> e, done |-> FALSE,
       out |-> ResolveFailed] : e \in Events }

InitResolve ==
    /\ InitSession /\ variant = "multi"
    /\ call \in ResolveCalls
    /\ sup = NoSup
    /\ sess = NoSess

call_get_clobTokenIds_from_slug ==
    /\ call.op = "get_clobTokenIds_from_slug"
    /\ ~call.done
    /\ call' = [call EXCEPT !.out = get_clobTokenIds_from_slug(call.event),
                            !.done = TRUE]
    /\ UNCHANGED <<sessionVars, sup, sess>>

NextResolve == call_get_clobTokenIds_from_slug

SpecResolve == InitResolve /\ [][NextResolve]_vars

\* -------------------------------------------------------- seconds to close
\* time_left of a message timestamp, called on its own: timestamps of every
\* minute of an hour, at the start of the minute, 0.4 s and 0.5 s into it and
\* 0.4 s before its end.
QuarterTimes ==
    { m * 60000 + ms : m \in 0..59, ms \in {0, 400, 500, 59600} }

QuarterCalls ==
    { [op |-> "time_left", ts |-> ts, done |-> FALSE, out |-> None] :
        ts \in QuarterTimes }

InitQuarter ==
    /\ InitSession /\ variant = "multi"
    /\ call \in QuarterCalls
    /\ sup = NoSup
    /\ sess = NoSess

call_time_left ==
    /\ call.op = "time_left"
    /\ ~call.done
    /\ call' = [call EXCEPT !.out = time_left(call.ts), !.done = TRUE]
    /\ UNCHANGED <<sessionVars, sup, sess>>

NextQuarter == call_time_left

SpecQuarter == InitQuarter /\ [][NextQuarter]_vars

\* ------------------------------------------------------------------ replay
\* One recorded message sequence is fed to two sessions, each under its own
\* wall clock: sess.run[i] holds the attributes of session i, sess.clock[i]
\* its last reading of datetime.now().  The gateway answers the k-th order of
\* either session alike.
ReplayMessages ==
    { [kind |-> "BAD", timestamp |-> 0, price_changes |-> <<>>] }
    \cup { [kind |-> "JSON", timestamp |-> ts, price_changes |-> cs] :
              ts \in {600000},
              cs \in { <<Entry("BUY", data[1], 95)>>,
                       <<Entry("BUY", data[1], 96)>>,
                       <<Entry("BUY", data[2], 96)>> } }

InitReplay ==
    /\ InitSession
    /\ call = NoCall
    /\ sup = NoSup
    /\ sess = [run |-> [i \in SessionIds |-> NewSession],
               clock |-> [i \in SessionIds |-> now]]

\* on_open of both sessions
replay_open ==
    /\ \A i \in SessionIds : ~sess.run[i].connected
    /\ sess' = [sess EXCEPT
                  !.run = [i \in SessionIds |-> [@[i] EXCEPT !.connected = TRUE]]]
    /\ UNCHANGED <<sessionVars, call, sup>>

\* The same k-th order of two sessions gets the same answer.
SameReplies(a, b) ==
    \A k \in 1..Min(Len(a.orders), Len(b.orders)) :
        a.orders[k].result = b.orders[k].result

\* The next recorded message reaches both sessions; each handles it under
\* its own clock reading, a session whose connection is closed gets nothing.
replay_message(msg) ==
    /\ \A i \in SessionIds : sess.run[i].connected
    /\ \E i \in SessionIds : ~sess.run[i].ws_closed
    /\ \A i \in SessionIds : BuyAttempts(sess.run[i].orders) < MaxBuys
    /\ \E w \in [SessionIds -> WallReadings] :
          /\ \A i \in SessionIds : w[i] >= sess.clock[i]
          /\ LET step(i) == IF sess.run[i].ws_closed THEN { sess.run[i] }
                            ELSE session_message(sess.run[i], msg, w[i])
             IN  \E a \in step(1), b \in step(2) :
                    /\ SameReplies(a, b)
                    /\ sess' = [run |-> [i \in SessionIds |->
                                            IF i = 1 THEN a ELSE b],
                                clock |-> w]
    /\ UNCHANGED <<sessionVars, call, sup>>

NextReplay ==
    \/ replay_open
    \/ \E msg \in ReplayMessages : replay_message(msg)

SpecReplay == InitReplay /\ [][NextReplay]_vars

\* ------------------------------------------------- a market that goes quiet
\* The supervisor loop with one coin, and the session of the current cycle
\* with its keep-alive thread and its feed:
\*   sess.up      the cycle has a session thread (the slug was resolved)
\*   sess.run     the attributes of the session
\*   sess.thr     where the keep-alive thread stands in ping()
\*   sess.probes  probes sent that the feed has not answered yet
\*   sess.quiet   the market has stopped emitting structured messages
\*   sup.pc       "start": top of the while loop, "join": at t.join()
\*   sup.r        r, counted up to MaxCycles
AliveSession(up) ==
    [up |-> up, run |-> NewSession, thr |-> "none", probes |-> 0,
     quiet |-> FALSE]

Pong == [kind |-> "PONG", timestamp |-> 0, price_changes |-> <<>>]
Data == [kind |-> "JSON", timestamp |-> 600000, price_changes |-> <<>>]

InitAlive ==
    /\ InitSession /\ variant = "multi"
    /\ call = NoCall
    /\ sup = [pc |-> "start", r |-> 1]
    /\ sess = AliveSession(FALSE)

\* One pass of the while loop up to the joins: the slug is resolved and the
\* session thread started, or the resolution raised and the coin is skipped.
alive_start ==
    /\ sup.pc = "start"
    /\ sup' = [sup EXCEPT !.pc = "join"]
    /\ \E ok \in BOOLEAN : sess' = AliveSession(ok)
    /\ UNCHANGED <<sessionVars, call>>

\* run_forever connects and calls on_open, which starts the keep-alive
\* thread; or the connection fails and on_error is called.
alive_open ==
    /\ sess.up /\ ~sess.run.connected /\ ~sess.run.ws_closed
    /\ \/ sess' = [sess EXCEPT !.run.connected = TRUE, !.thr = "test"]
       \/ sess' = [sess EXCEPT !.run.should_stop = TRUE, !.run.ws_closed = TRUE]
    /\ UNCHANGED <<sessionVars, sup, call>>

\* while not self.should_stop.is_set():
alive_ping_test ==
    /\ sess.thr = "test"
    /\ sess' = [sess EXCEPT
                  !.thr = IF sess.run.should_stop THEN "done" ELSE "send"]
    /\ UNCHANGED <<sessionVars, sup, call>>

\* ws.send("PING"): on an open connection the probe reaches the feed; on a
\* closed one the call raises, which ends the thread, or returns.
alive_ping_send ==
    /\ sess.thr = "send"
    /\ sess.run.ws_closed \/ sess.probes < MaxProbes
    /\ IF sess.run.ws_closed
       THEN \E pc \in {"sleep", "done"} : sess' = [sess EXCEPT !.thr = pc]
       ELSE sess' = [sess EXCEPT !.thr = "sleep", !.probes = @ + 1]
    /\ UNCHANGED <<sessionVars, sup, call>>

\* time.sleep(5)
alive_ping_sleep ==
    /\ sess.thr = "sleep"
    /\ sess' = [sess EXCEPT !.thr = "test"]
    /\ UNCHANGED <<sessionVars, sup, call>>

\* The feed answers a probe: on_message("PONG").
alive_pong ==
    /\ sess.probes > 0
    /\ sess.run.connected /\ ~sess.run.ws_closed
    /\ \E done \in session_message(sess.run, Pong, now) :
          sess' = [sess EXCEPT !.run = done, !.probes = @ - 1]
    /\ UNCHANGED <<sessionVars, sup, call>>

\* The market emits a structured message: on_message of it.
alive_data ==
    /\ ~sess.quiet
    /\ sess.run.connected /\ ~sess.run.ws_closed
    /\ \E done \in session_message(sess.run, Data, now) :
          sess' = [sess EXCEPT !.run = done]
    /\ UNCHANGED <<sessionVars, sup, call>>

\* The market stops emitting structured messages.
alive_quiet ==
    /\ sess.up /\ ~sess.quiet
    /\ sess' = [sess EXCEPT !.quiet = TRUE]
    /\ UNCHANGED <<sessionVars, sup, call>>

\* for t in threads: t.join() returns once run_forever has returned (or at
\* once when no thread was started); r += 1.
alive_join ==
    /\ sup.pc = "join"
    /\ ~sess.up \/ sess.run.ws_closed
    /\ sup' = [pc |-> "start", r |-> Min(sup.r + 1, MaxCycles)]
    /\ UNCHANGED <<sessionVars, sess, call>>

NextAlive ==
    \/ alive_start
    \/ alive_open
    \/ alive_ping_test
    \/ alive_ping_send
    \/ alive_ping_sleep
    \/ alive_pong
    \/ alive_data
    \/ alive_quiet
    \/ alive_join
    \/ tick

\* The threads are scheduled fairly, the feed answers every probe, and every
\* market stops emitting in the end.  Structured messages and the clock
\* come without any such promise.
FairAlive ==
    /\ WF_vars(alive_start)
    /\ WF_vars(alive_open)
    /\ WF_vars(alive_ping_test)
    /\ WF_vars(alive_ping_send)
    /\ WF_vars(alive_ping_sleep)
    /\ WF_vars(alive_pong)
    /\ WF_vars(alive_quiet)
    /\ WF_vars(alive_join)

SpecAlive == InitAlive /\ [][NextAlive]_vars /\ FairAlive

\* --------------------------------------------------------- faulty messages
\* Frames whose handling raises inside the try of on_message, next to ones
\* that are handled to the end: an undecodable frame, an entry of an unmapped
\* token before and after an entry that triggers, a timestamp whose
\* time_left raises, and entries at and above the threshold.
FaultMessages ==
    { [kind |-> "BAD", timestamp |-> 0, price_changes |-> <<>>],
      [kind |-> "JSON", timestamp |-> 3000000,
       price_changes |-> <<Entry("BUY", data[1], 96)>>] }
    \cup { [kind |-> "JSON", timestamp |-> 600000, price_changes |-> cs] :
              cs \in { <<Entry("BUY", "tokOther", 96), Entry("BUY", data[1], 96)>>,
                       <<Entry("BUY", data[1], 96), Entry("BUY", "tokOther", 96)>>,
                       <<Entry("BUY", data[1], 96)>>,
                       <<Entry("BUY", data[2], 95)>> } }

NextFault ==
    \/ on_open
    \/ \E msg \in FaultMessages : on_message(msg)
    \/ on_error
    \/ on_close

SpecFault == Init /\ [][NextFault]_vars

\* ------------------------------------------------------- the two drivers
\* One message sequence is handled by the multi-market session, then the
\* same sequence by the single-market session, with the same gateway answer
\* to the k-th BUY:
\*   sess.run    the attributes of the session that is running
\*   sess.tape   the messages fed to the multi-market session so far
\*   sess.multi  what the multi-market session did per message
\*   sess.single what the single-market session did per message
\*   sess.buys   the answers the gateway gave to the BUYs of the first run
\* What a session did for a message: how many entries of each side reached
\* the decision rule, and the BUYs it submitted (token and price).
MaxTape == 2

\* 600000, 600400: second 600, 300 s to close; 840000: 60 s to close.
DriverMessages ==
    { [kind |-> "JSON", timestamp |-> ts, price_changes |-> cs] :
        ts \in {600000, 600400, 840000},
        cs \in { <<Entry("BUY", data[1], 95)>>, <<Entry("BUY", data[1], 96)>>,
                 <<Entry("BUY", data[2], 96)>> } }

Opened == [NewSession EXCEPT !.connected = TRUE]

Buys(os) == SelectSeq(os, LAMBDA o : o.side = "BUY")

\* What the handler that took s to done did.
Did(s, done) ==
    [evals |-> done.evals,
     buys |-> [k \in 1..(Len(Buys(done.orders)) - Len(Buys(s.orders))) |->
                 LET o == Buys(done.orders)[Len(Buys(s.orders)) + k]
                 IN  [token_id |-> o.token_id, price |-> o.price]]]

\* on_message(msg) of the running session, counting the entries it evaluates
\* from zero.
driver_message(s, msg) ==
    session_message([s EXCEPT !.evals = [p \in Picks |-> 0]], msg, now)

InitDrivers ==
    /\ InitSession /\ variant = "multi"
    /\ call = NoCall
    /\ sup = NoSup
    /\ sess = [run |-> Opened, tape |-> <<>>, multi |-> <<>>, single |-> <<>>,
               buys |-> <<>>]

\* The multi-market session handles the next message of the feed.
multi_message(msg) ==
    /\ variant = "multi"
    /\ Len(sess.tape) < MaxTape
    /\ ~sess.run.ws_closed
    /\ \E done \in driver_message(sess.run, msg) :
          sess' = [sess EXCEPT
                     !.run = done,
                     !.tape = Append(@, msg),
                     !.multi = Append(@, Did(sess.run, done)),
                     !.buys = [k \in 1..Len(Buys(done.orders)) |->
                                  Buys(done.orders)[k].result]]
    /\ UNCHANGED <<sessionVars, call, sup>>

\* The recording is over; the single-market driver starts on the same feed.
start_single ==
    /\ variant = "multi"
    /\ sess.tape # <<>>
    /\ variant' = "single"
    /\ sess' = [sess EXCEPT !.run = Opened]
    /\ UNCHANGED <<sell_price, data_dict, ledger_faulty, connected, event_ended,
                   pong_count, should_stop, ws_closed, current_sec, seen_pick,
                   traded, orders, ledger, now, replies_recv, stalled, rejected,
                   last_sec, evals, last_pass, live_at, ping_pc, late_probe,
                   call, sup>>

\* The single-market session handles the next message of the recording.
single_message ==
    LET n == Len(sess.single) + 1 IN
    /\ variant = "single"
    /\ n <= Len(sess.tape)
    /\ \E done \in driver_message(sess.run, sess.tape[n]) :
          /\ \A k \in 1..Min(Len(Buys(done.orders)), Len(sess.buys)) :
                Buys(done.orders)[k].result = sess.buys[k]
          /\ sess' = [sess EXCEPT
                        !.run = done,
                        !.single = Append(@, Did(sess.run, done))]
    /\ UNCHANGED <<sessionVars, call, sup>>

NextDrivers ==
    \/ \E msg \in DriverMessages : multi_message(msg)
    \/ start_single
    \/ single_message

SpecDrivers == InitDrivers /\ [][NextDrivers]_vars

\* ---------------------------------------------------------------- on_open
\* on_open with the channel type and the credentials the session was built
\* with.  sess is a session with its keep-alive thread, as above, and
\*   sess.channel_type  self.channel_type
\*   sess.auth          whether self.auth is set
\*   sess.frames        the frames on_open sent
MARKET_CHANNEL == "market"
USER_CHANNEL == "user"

ChannelSession(channel_type, auth) ==
    [up |-> TRUE, run |-> NewSession, thr |-> "none", probes |-> 0,
     quiet |-> TRUE, channel_type |-> channel_type, auth |-> auth,
     frames |-> <<>>]

InitChannel ==
    /\ InitSession /\ variant = "multi"
    /\ call = NoCall
    /\ sup = NoSup
    /\ sess \in { ChannelSession(c, a) :
                    c \in {MARKET_CHANNEL, USER_CHANNEL, "other"},
                    a \in BOOLEAN }

\* Faulty variant of open_else: the connection is closed, the flag is not set.
open_else_close_only(s) == [s EXCEPT !.ws_closed = TRUE]

\* else: self.should_stop.set(); ws.close()
open_else(s) == [s EXCEPT !.should_stop = TRUE, !.ws_closed = TRUE]

\* WebSocketOrderBook.on_open(ws)
channel_open ==
    /\ ~sess.run.connected /\ ~sess.run.ws_closed
    /\ LET s == [sess.run EXCEPT !.connected = TRUE]
       IN  sess' =
             IF sess.channel_type = MARKET_CHANNEL
             THEN [sess EXCEPT !.run = s, !.thr = "test",
                               !.frames = Append(@, "subscribe market")]
             ELSE IF sess.channel_type = USER_CHANNEL /\ sess.auth
             THEN [sess EXCEPT !.run = s, !.thr = "test",
                               !.frames = Append(@, "subscribe user")]
             ELSE [sess EXCEPT !.run = open_else(s), !.thr = "test"]
    /\ UNCHANGED <<sessionVars, sup, call>>

\* on_error, on_close
channel_close ==
    /\ sess.run.connected
    /\ ~sess.run.should_stop \/ ~sess.run.ws_closed
    /\ sess' = [sess EXCEPT !.run.should_stop = TRUE, !.run.ws_closed = TRUE]
    /\ UNCHANGED <<sessionVars, sup, call>>

NextChannel ==
    \/ channel_open
    \/ alive_ping_test
    \/ alive_ping_send
    \/ alive_ping_sleep
    \/ alive_pong
    \/ channel_close

SpecChannel == InitChannel /\ [][NextChannel]_vars

\* --------------------------------------------------- get_history.py: main
\* The backward scan.  sup holds main's variables and where it stands:
\*   pc          "load", "next" (top of the while loop), "lookup" (inside
\*               the try), "sort" (after the loop), "done", "crashed"
\*   r, suffix, fail_count, records
\*   file        the rows of ./data/results_script.csv below its header
\*   start, loaded, looked, written
\*               history: the first suffix, the file's rows at the start,
\*               every (r, suffix) looked up, whether the run wrote the file
\* An event's title stands for its slug, so an event is named by its suffix;
\* records is the dict as the list of its items in insertion order.
Dash == <<-1>>        \* the string "-", which is no digit string

\* get_history.get_prev_suffix(r, suffix)
get_prev_suffix(r, suffix) ==
    IF r = 1 THEN suffix
    ELSE IF r > 1 THEN str(int(suffix) - 900)
    ELSE None

HistoryRow(event, suffix, outcome) ==
    [event |-> event, suffix |-> suffix, outcome |-> outcome]

\* records[event] = value on the list of items: an event that is there keeps
\* its place.
dict_set(records, event, suffix, outcome) ==
    IF \E k \in 1..Len(records) : records[k].event = event
    THEN [k \in 1..Len(records) |->
             IF records[k].event = event
             THEN HistoryRow(event, suffix, outcome) ELSE records[k]]
    ELSE Append(records, HistoryRow(event, suffix, outcome))

\* load_existing_records(): records[row["event"]] = ["-", row["outcome"]]
load_existing_records(file) ==
    LET f[i \in 0..Len(file)] ==
            IF i = 0 THEN <<>>
            ELSE dict_set(f[i - 1], file[i].event, Dash, file[i].outcome)
    IN  f[Len(file)]

\* sorted(records.items(), key=lambda x: int(x[1][0])): a stable sort; f[i]
\* holds the first i items in order.
sorted_records(records) ==
    LET key(row) == int(row.suffix)
        f[i \in 0..Len(records)] ==
            IF i = 0 THEN <<>>
            ELSE LET before == SelectSeq(f[i - 1],
                                         LAMBDA x : key(x) <= key(records[i]))
                     after == SelectSeq(f[i - 1],
                                        LAMBDA x : key(x) > key(records[i]))
                 IN  before \o <<records[i]>> \o after
    IN  f[Len(records)]

\* write_sorted_csv(records): the rows written below the header
write_sorted_csv(records) == records

HistoryStarts == { <<1, 7, 6, 8, 4, 7, 5, 7, 0, 0>>, <<1, 0, 8, 0, 0>> }

\* The file at the start: missing or empty, or rows of an earlier run.
HistoryFiles(start) ==
    { <<>>,
      <<HistoryRow(start, start, "Up")>>,
      <<HistoryRow(str(int(start) - 900), str(int(start) - 900), "Down"),
        HistoryRow(start, start, "Up")>> }

Outcomes == {"Up", "Down"}

InitHistory ==
    /\ InitSession /\ variant = "multi"
    /\ call = NoCall
    /\ sess = NoSess
    /\ \E s \in HistoryStarts : \E file \in HistoryFiles(s) :
          sup = [pc |-> "load", r |-> 1, suffix |-> s, fail_count |-> 0,
                 records |-> <<>>, file |-> file, start |-> s,
                 loaded |-> file, looked |-> {}, written |-> FALSE]

\* records = load_existing_records(); r, suffix = 1, "1768475700"
history_load ==
    /\ sup.pc = "load"
    /\ sup' = [sup EXCEPT !.pc = "next",
                          !.records = load_existing_records(sup.file)]
    /\ UNCHANGED <<sessionVars, call, sess>>

\* suffix = get_prev_suffix(r, suffix); slug = ...
history_next ==
    /\ sup.pc = "next"
    /\ LET s == get_prev_suffix(sup.r, sup.suffix)
       IN  sup' = [sup EXCEPT !.pc = "lookup", !.suffix = s,
                              !.looked = @ \cup {<<sup.r, s>>}]
    /\ UNCHANGED <<sessionVars, call, sess>>

\* get_info_from_slug(slug) returned an ended market's title and outcome:
\* a new event is recorded, a recorded one is left as it is; r += 1.
history_found(outcome) ==
    /\ sup.pc = "lookup"
    /\ sup.r < MaxCycles
    /\ LET event == sup.suffix
           known == \E k \in 1..Len(sup.records) : sup.records[k].event = event
       IN  sup' = [sup EXCEPT
                     !.pc = "next", !.r = @ + 1,
                     !.records = IF known THEN @
                                 ELSE dict_set(@, event, sup.suffix, outcome)]
    /\ UNCHANGED <<sessionVars, call, sess>>

\* get_info_from_slug(slug) returned (None, None): r += 1.
history_none ==
    /\ sup.pc = "lookup"
    /\ sup.r < MaxCycles
    /\ sup' = [sup EXCEPT !.pc = "next", !.r = @ + 1]
    /\ UNCHANGED <<sessionVars, call, sess>>

\* get_info_from_slug(slug) raised: fail_count += 1; the third failure
\* leaves the loop.
history_fail ==
    /\ sup.pc = "lookup"
    /\ sup' = [sup EXCEPT !.fail_count = @ + 1,
                          !.pc = IF sup.fail_count + 1 = 3 THEN "sort"
                                 ELSE "next"]
    /\ UNCHANGED <<sessionVars, call, sess>>

\* sorted_records = dict(sorted(...)); write_sorted_csv(sorted_records).
\* int("-") raises ValueError, which ends main before the file is opened.
history_write ==
    /\ sup.pc = "sort"
    /\ IF \E k \in 1..Len(sup.records) : sup.records[k].suffix = Dash
       THEN sup' = [sup EXCEPT !.pc = "crashed"]
       ELSE sup' = [sup EXCEPT
                      !.pc = "done", !.written = TRUE,
                      !.file = write_sorted_csv(sorted_records(sup.records))]
    /\ UNCHANGED <<sessionVars, call, sess>>

NextHistory ==
    \/ history_load
    \/ history_next
    \/ \E outcome \in Outcomes : history_found(outcome)
    \/ history_none
    \/ history_fail
    \/ history_write

SpecHistory == InitHistory /\ [][NextHistory]_vars

\* ------------------------------------------------------- a faulty ledger
\* The session with a trade_record.csv that cannot always be appended to
\* (disk full, file locked): open(csv_file, mode="a") or writerow may raise.
InitFaultyLedger ==
    /\ variant \in Variants
    /\ sell_price \in (IF variant = "multi" THEN SellPrices ELSE {None})
    /\ data_dict \in ThresholdTables
    /\ ledger_faulty = TRUE
    /\ connected = FALSE
    /\ event_ended = FALSE
    /\ pong_count = 0
    /\ should_stop = FALSE
    /\ ws_closed = FALSE
    /\ current_sec = None
    /\ seen_pick = [p \in Picks |-> FALSE]
    /\ traded = FALSE
    /\ orders = <<>>
    /\ ledger = <<>>
    /\ now = 600000
    /\ replies_recv = 0
    /\ stalled = FALSE
    /\ rejected = FALSE
    /\ last_sec = None
    /\ evals = [p \in Picks |-> 0]
    /\ last_pass = NoPass
    /\ live_at = None
    /\ ping_pc = "none"
    /\ late_probe = FALSE
    /\ call = NoCall
    /\ sup = NoSup
    /\ sess = NoSess

LedgerMessages ==
    { [kind |-> "JSON", timestamp |-> ts, price_changes |-> cs] :
        ts \in {600000, 660000},
        cs \in { <<Entry("BUY", data[1], 96)>>,
                 <<Entry("BUY", data[1], 96), Entry("BUY", data[2], 96)>> } }

NextFaultyLedger ==
    \/ on_open
    \/ \E msg \in LedgerMessages : on_message(msg)
    \/ on_error
    \/ on_close

SpecFaultyLedger == InitFaultyLedger /\ [][NextFaultyLedger]_vars

\* ------------------------------------------- supervisor loop and the clock
\* The supervisor loop while the wall clock moves on.  The first cycle starts
\* at 10:00 of the hour, inside the window its suffix names; the windows are
\* the quarter hours.
NextSupClock ==
    \/ NextSup
    \/ tick

SpecSupClock == InitSup /\ [][NextSupClock]_vars

\* ------------------------------------------------ messages after the close
\* A frame the transport still hands to on_message after the session asked
\* for the close: the handler runs as for any other frame, it never reads
\* should_stop.
late_message(i, msg) ==
    LET s == sess[slot(i)] IN
    /\ s.connected
    /\ s.should_stop
    /\ s.pc = "idle"
    /\ BuyAttempts(s.orders) < MaxBuys
    /\ msg.kind = "PONG" => s.pong_count < MaxPongs
    /\ \E done \in session_message(s, msg, now) :
          sess' = [sess EXCEPT ![slot(i)] =
                      IF done.traded /\ ~s.traded /\ variant = "multi"
                      THEN at_first_sleep(s, done)
                      ELSE done]
    /\ UNCHANGED <<sessionVars, call, sup>>

NextLate ==
    \/ pair_open(1)
    \/ \E msg \in PairMessages : pair_message(1, msg)
    \/ \E msg \in PairMessages : late_message(1, msg)
    \/ pair_sell(1)
    \/ pair_error(1)
    \/ tick

SpecLate == InitPair /\ [][NextLate]_vars

\* ------------------------------------------------- when the SELLs are made
\* One session whose messages carry the wall-clock time and whose orders take
\* no time: sess holds the instance (s), the clock (ms from the top of the
\* hour), when its BUY was placed and when each SELL was placed.  The clock
\* starts within 501 ms of a whole minute before the close of the first
\* quarter hour.
SellInstants ==
    { 900000 - 60000 * k + off : k \in 1..13, off \in {-501, -500, 0, 500, 501} }

InitTimed ==
    /\ InitSession /\ variant = "multi"
    /\ call = NoCall
    /\ sup = NoSup
    /\ \E t \in SellInstants :
          sess = [s |-> [NewSession EXCEPT !.connected = TRUE],
                  clock |-> t, bought_at |-> None, sold_at |-> <<>>]

\* on_message for a price_change message stamped with the clock, up to its end
\* or to the first time.sleep(30) after a BUY.
timed_message ==
    LET s == sess.s
        msg == [kind |-> "JSON", timestamp |-> sess.clock,
                price_changes |-> <<Entry("BUY", data[1], 96)>>]
    IN
    /\ s.pc = "idle"
    /\ BuyAttempts(s.orders) < MaxBuys
    /\ \E done \in session_message(s, msg, sess.clock) :
          sess' = IF done.traded /\ ~s.traded
                  THEN [sess EXCEPT !.s = at_first_sleep(s, done),
                                    !.bought_at = sess.clock]
                  ELSE [sess EXCEPT !.s = done]
    /\ UNCHANGED <<sessionVars, call, sup>>

\* time.sleep(30) returns, the round's SELL is placed and recorded.
timed_sell ==
    LET s == sess.s
        n == Len(s.orders) + 1
    IN
    /\ s.pc = "sell"
    /\ sess' = [sess EXCEPT
                  !.clock = @ + 30000,
                  !.sold_at = Append(@, sess.clock + 30000),
                  !.s = [s EXCEPT
                           !.orders = SubSeq(s.todo.orders, 1, n),
                           !.ledger = SubSeq(s.todo.ledger, 1, Len(s.ledger) + 1),
                           !.pc = IF n = Len(s.todo.orders) THEN "idle" ELSE "sell",
                           !.todo = IF n = Len(s.todo.orders) THEN NoTodo ELSE @]]
    /\ UNCHANGED <<sessionVars, call, sup>>

NextTimed ==
    \/ timed_message
    \/ timed_sell

SpecTimed == InitTimed /\ [][NextTimed]_vars

\* ------------------------------------------------------------------- claims
IsBuy(o) == o.side = "BUY"
IsSell(o) == o.side = "SELL"
Ok(o) == o.result = "ok"
SellAttempts(os) == Cardinality({ i \in 1..Len(os) : IsSell(os[i]) })
OkBuys(os) == Cardinality({ i \in 1..Len(os) : IsBuy(os[i]) /\ Ok(os[i]) })
Passed == last_pass.ts # None

\* The rounded number of seconds from ts to the first quarter hour after it.
SecondsToClose(ts) == RoundHalfEven(((ts \div 900000) + 1) * 900000 - ts)

\* The evaluation instants 120, 180, ..., 780.
Instants == { 60 * k : k \in 2..13 }

\* C1: traded only ever changes from false to true; once it is true no step
\* of the session submits a further BUY, and an entry that passes
\* de-duplication while traded is true makes no call of place_order at all.
C1_TradedOnce ==
    [][ /\ traded => traded'
        /\ traded => BuyAttempts(orders') = BuyAttempts(orders)
        /\ (last_pass'.ts # None /\ ~last_pass'.fresh) => last_pass'.calls = 0
      ]_vars

\* C1 witness: after the BUY, an entry above the threshold at an evaluation
\* instant passed de-duplication and was not bought.
C1_Witness ==
    /\ traded
    /\ Passed /\ ~last_pass.fresh
    /\ time_left(last_pass.ts) \in intervals(variant)
    /\ last_pass.ask > data_dict[time_left(last_pass.ts)]
    /\ last_pass.calls = 0

\* C2 (as claimed): a BUY attempt sets traded whether it returned or raised,
\* so a session makes at most one BUY attempt.
C2_AtMostOneBuyAttempt ==
    /\ BuyAttempts(orders) >= 1 => traded
    /\ BuyAttempts(orders) <= 1

\* C3 (as claimed): in the multi-market session, within a run of structured
\* messages of one integer second at most one BUY entry per side reaches the
\* decision rule.
C3_OneDecisionPerSecond ==
    variant = "multi" => \A p \in Picks : evals[p] <= 1

\* C4 (as claimed): in the multi-market session, while traded is false, an
\* entry that passed de-duplication triggers a BUY if and only if its
\* secondsToClose is an evaluation instant, its best ask is above the
\* threshold of that instant and at most the target sell price less a cent.
C4_TriggerIff ==
    (variant = "multi" /\ Passed /\ last_pass.fresh) =>
        ( last_pass.calls > 0
          <=> /\ SecondsToClose(last_pass.ts) \in Instants
              /\ last_pass.ask > data_dict[SecondsToClose(last_pass.ts)]
              /\ last_pass.ask <= sell_price - 1 )

\* C5: an entry that passed de-duplication at an evaluation instant with a
\* best ask not above the threshold of that instant causes no order and no
\* ledger row, and traded stays false.
C5_NoTradeAtOrBelowThreshold ==
    ( /\ Passed /\ last_pass.fresh
      /\ SecondsToClose(last_pass.ts) \in intervals(variant)
      /\ last_pass.ask <= data_dict[SecondsToClose(last_pass.ts)] )
    => (last_pass.calls = 0 /\ last_pass.rows = 0 /\ ~traded)

\* C5 witness: such an entry was handled.
C5_Witness ==
    /\ Passed /\ last_pass.fresh
    /\ SecondsToClose(last_pass.ts) \in intervals(variant)
    /\ last_pass.ask <= data_dict[SecondsToClose(last_pass.ts)]
    /\ orders = <<>> /\ ledger = <<>> /\ ~traded

\* C6: in the multi-market session every BUY that returned is followed by
\* exactly three SELL attempts: the three calls after it are SELLs whether or
\* not one of them raised, a SELL that raised has a FAILED row, and there is
\* no fourth.
C6_ThreeSellAttempts ==
    variant = "multi" =>
        /\ \A i \in 1..Len(orders) :
              (IsBuy(orders[i]) /\ Ok(orders[i])) =>
                  /\ i + SellRoundsMax <= Len(orders)
                  /\ \A k \in 1..SellRoundsMax : IsSell(orders[i + k])
                  /\ i + SellRoundsMax + 1 <= Len(orders)
                        => ~IsSell(orders[i + SellRoundsMax + 1])
        /\ SellAttempts(orders) = SellRoundsMax * OkBuys(orders)
        /\ \A j \in 1..Len(orders) :
              (IsSell(orders[j]) /\ ~Ok(orders[j])) =>
                  /\ j <= Len(ledger)
                  /\ ledger[j].action = "SELL"
                  /\ ledger[j].status = "FAILED"

\* C6 witness: the first SELL after a BUY raised and two more SELLs followed.
C6_Witness ==
    \E i \in 1..Len(orders) :
        /\ IsBuy(orders[i]) /\ Ok(orders[i])
        /\ i + 3 <= Len(orders)
        /\ IsSell(orders[i + 1]) /\ ~Ok(orders[i + 1])
        /\ IsSell(orders[i + 2]) /\ IsSell(orders[i + 3])

\* C7: every SELL follows a BUY of the session that returned, for the same
\* token, with no other BUY in between; a session without a returned BUY
\* submits no SELL.
C7_SellOnlyAfterBuy ==
    /\ \A j \in 1..Len(orders) :
          IsSell(orders[j]) =>
              \E i \in 1..(j - 1) :
                  /\ IsBuy(orders[i]) /\ Ok(orders[i])
                  /\ orders[i].token_id = orders[j].token_id
                  /\ \A m \in (i + 1)..(j - 1) : IsSell(orders[m])
    /\ OkBuys(orders) = 0 => SellAttempts(orders) = 0

\* C7 witness: a BUY raised, a later BUY returned and was followed by SELLs.
C7_Witness ==
    /\ \E i \in 1..Len(orders) : IsBuy(orders[i]) /\ ~Ok(orders[i])
    /\ \E j \in 1..Len(orders) : IsSell(orders[j])

\* C8: the ledger holds one row per call of place_order, in the order of the
\* calls: SUCCESS when the call returned, FAILED when it raised (in the
\* multi-market session the row names the call's side); a traded
\* multi-market session has one BUY SUCCESS row and three SELL rows for it.
C8_RowsMatchAttempts ==
    /\ Len(ledger) = Len(orders)
    /\ \A i \in 1..Len(orders) :
          /\ ledger[i].status = (IF Ok(orders[i]) THEN "SUCCESS" ELSE "FAILED")
          /\ variant = "multi" => ledger[i].action = orders[i].side
    /\ (variant = "multi" /\ traded) =>
          /\ Cardinality({ i \in 1..Len(ledger) :
                ledger[i].action = "BUY" /\ ledger[i].status = "SUCCESS" }) = 1
          /\ Cardinality({ i \in 1..Len(ledger) : ledger[i].action = "SELL" }) = 3

\* C8, append-only: a step leaves the rows already written as they are.
C8_AppendOnly ==
    /\ Len(ledger') >= Len(ledger)
    /\ SubSeq(ledger', 1, Len(ledger)) = ledger

C8_LedgerRows == []C8_RowsMatchAttempts /\ [][C8_AppendOnly]_vars

\* C8 witness: a failed BUY, then a BUY that returned and its three SELL rows,
\* one of them FAILED.
C8_Witness ==
    /\ variant = "multi" /\ traded
    /\ Len(ledger) = 5
    /\ ledger[1].action = "BUY" /\ ledger[1].status = "FAILED"
    /\ \E i \in 3..5 : ledger[i].action = "SELL" /\ ledger[i].status = "FAILED"

\* C9 (as claimed): pong_count always equals the number of liveness replies
\* received since the last other message or the session's start.
C9_PongCountIsRepliesReceived == pong_count = replies_recv

\* C9 (amended): the same, as long as no message was rejected by the
\* window-ended check; a rejected message leaves pong_count as it is.
C9_PongCountUnlessRejected ==
    /\ [](~rejected => pong_count = replies_recv)
    /\ [][ (rejected' /\ ~rejected) => pong_count' = pong_count ]_vars

\* C9 witness: replies were counted after a structured message reset the count.
C9_Witness == ~rejected /\ last_sec # None /\ pong_count = 2

\* C10 (as claimed): the stall path stops the session exactly when the fifth
\* consecutive liveness reply is received.
C10_StallIffFiveReplies ==
    /\ stalled <=> replies_recv = PongLimit
    /\ stalled => (should_stop /\ ws_closed)

\* C10 (amended): ... exactly when the fifth consecutive liveness reply is
\* received while the window-ended flag is not set; a fifth reply received
\* after the flag was set is rejected, which stops the session as well.
C10_StallIffFiveRepliesCounted ==
    /\ stalled <=> (replies_recv = PongLimit /\ ~rejected)
    /\ stalled => (should_stop /\ ws_closed /\ pong_count = PongLimit)
    /\ replies_recv = PongLimit => (should_stop /\ ws_closed)
    /\ replies_recv <= PongLimit

\* C10 witness: the stall path was taken.
C10_Witness == stalled /\ replies_recv = PongLimit /\ ws_closed

\* C11 (as claimed): when the secondsToClose derived from a message is 0 the
\* window-ended flag is set.
C11_FlagWhenMessageAtClose ==
    (Passed /\ SecondsToClose(last_pass.ts) = 0) => event_ended

\* C11 (amended): the flag is set exactly by a message received when the
\* wall clock has 0 whole seconds left to the next quarter hour; it never
\* reverts; and a message received with the flag set makes the session set
\* its stop flag and close its connection and changes nothing else.
C11_FlagWhenClockAtClose ==
    /\ [][ \A m \in WindowMessages : on_message(m) =>
              /\ (~event_ended /\ cal_time_left(now) = 0) => event_ended'
              /\ (~event_ended /\ event_ended') => cal_time_left(now) = 0
              /\ event_ended =>
                    /\ should_stop' /\ ws_closed'
                    /\ UNCHANGED <<pong_count, current_sec, seen_pick, traded,
                                   orders, ledger>>
         ]_vars
    /\ [][ event_ended => event_ended' ]_vars

\* C11 witness: a message was handled with 0 whole seconds left and the next
\* one was rejected.
C11_Witness ==
    /\ event_ended /\ rejected
    /\ live_at # None /\ cal_time_left(live_at) = 0
    /\ should_stop /\ ws_closed

\* C12 (as claimed): once the wall clock has passed the quarter hour that
\* closes the session's window, no message is handled as live data.
C12_NoLiveMessageAfterExpiry ==
    live_at # None => live_at < get_next_quarter(600000)

AtJoin == sup.pc = "resolve" /\ sup.todo = <<>>

\* C14: every slug resolved in cycle r carries the starting suffix plus
\* 900 * (r - 1), whatever failed or ended early in the cycles before.
C14_CycleSuffix ==
    /\ \A u \in sup.used : int(u[2]) = int(sup.start) + 900 * (u[1] - 1)
    /\ sup.pc = "resolve" =>
          int(sup.suffix) = int(sup.start) + 900 * (sup.r - 1)

\* C14 witness: the third cycle runs after a resolution failed in the second
\* and sessions of the first two cycles have ended.
C14_Witness ==
    /\ variant = "multi"
    /\ sup.r = 3 /\ AtJoin
    /\ sup.prev_failed["BTC"]
    /\ <<3, str(int(sup.start) + 1800)>> \in sup.used

\* C15: a running session belongs to the current cycle, and the cycle index
\* changes only when no session is running.
C15_OneCycleAtATime ==
    /\ [](\A c \in Coins : sup.status[c] = "running" => sup.cyc[c] = sup.r)
    /\ [][ sup'.r # sup.r =>
              /\ sup'.r = sup.r + 1
              /\ \A c \in Coins : sup.status[c] # "running" ]_vars

\* C15 witness: the second cycle's sessions run; those of the first have ended.
C15_Witness ==
    /\ variant = "multi"
    /\ sup.r = 2
    /\ sup.status["BTC"] = "running" /\ sup.status["ETH"] = "done"
    /\ sup.cyc["BTC"] = 2 /\ sup.cyc["ETH"] = 2

\* C16: in the multi driver a coin whose resolution failed in this cycle has
\* no session in it, every coin that resolved has one, every coin is tried in
\* every cycle, also after its resolution failed in the cycle before.
C16_FailureSkipsOneCoinOneCycle ==
    (variant = "multi" /\ sup.pc = "resolve") =>
        /\ \A c \in Coins :
              sup.attempt[c] = sup.r =>
                  IF sup.failed[c] THEN sup.status[c] = "none"
                  ELSE sup.status[c] \in {"running", "done"} /\ sup.cyc[c] = sup.r
        /\ AtJoin => \A c \in Coins : sup.attempt[c] = sup.r

\* C16 witness: ETH failed in this cycle and SOL, after it, runs; BTC failed
\* in the cycle before and runs in this one.
C16_Witness ==
    /\ variant = "multi" /\ AtJoin /\ sup.r = 2
    /\ sup.failed["ETH"] /\ sup.status["ETH"] = "none"
    /\ sup.status["SOL"] = "running"
    /\ sup.prev_failed["BTC"] /\ sup.status["BTC"] = "running"

\* C17 (as claimed): every exit sets the stop flag and closes the connection,
\* and once the stop flag is set the keep-alive thread calls ws.send("PING")
\* no more.
C17_NoProbeAfterStop ==
    /\ (rejected \/ stalled \/ ws_closed) => (should_stop /\ ws_closed)
    /\ ~late_probe

\* C19: every order is GTC; a BUY is priced at the best ask of the entry that
\* triggered it, sized 1.1 / that ask, for that entry's token; every SELL is
\* for the token and the size of the BUY before it, at the target sell price.
C19_OrderArguments ==
    /\ \A i \in 1..Len(orders) :
          /\ orders[i].tif = "GTC"
          /\ IsBuy(orders[i]) => orders[i].size = <<Notional, orders[i].price>>
          /\ IsSell(orders[i]) =>
                \E b \in 1..(i - 1) :
                    /\ IsBuy(orders[b])
                    /\ \A m \in (b + 1)..(i - 1) : IsSell(orders[m])
                    /\ orders[i].token_id = orders[b].token_id
                    /\ orders[i].size = orders[b].size
                    /\ orders[i].price = sell_price
    /\ (Passed /\ last_pass.calls > 0) =>
          LET b == orders[Len(orders) - last_pass.calls + 1] IN
              /\ IsBuy(b)
              /\ b.price = last_pass.ask
              /\ buy_pick(b.token_id) = last_pass.pick

\* C19 witness: the DOWN entry at 0.96 was bought and sold three times at 0.99.
C19_Witness ==
    /\ variant = "multi" /\ Passed /\ last_pass.calls = 4
    /\ last_pass.pick = "DOWN"
    /\ orders[Len(orders)].side = "SELL"
    /\ orders[Len(orders)].token_id = data[2]
    /\ orders[Len(orders)].price = 99
    /\ orders[Len(orders)].size = <<Notional, 96>>

\* The token ids place_order lets through: an int, a string of digits, a
\* string that starts with 0x.
TokenOk(k) ==
    \/ k.type = "int"
    \/ k.type = "str" /\ (isdigit(k.v) \/ startswith_0x(k.v))

\* C20 (as claimed): a call with price <= 0 or > 1, size <= 0, a side other
\* than BUY or SELL, or a malformed token id raises before any call on the
\* gateway client; only orders passing the four checks reach the client.
C20_ValidationBySideAsWritten ==
    (call.op = "place_order" /\ call.done) =>
        LET bad == \/ call.price <= 0 \/ call.price > 100
                   \/ call.size <= 0
                   \/ call.side \notin {"BUY", "SELL"}
                   \/ ~TokenOk(call.token_id)
        IN  /\ bad => (call.out.raised /\ call.out.client = <<>>)
            /\ call.out.client # <<>> => ~bad

\* C20 (amended): the same with the side compared in upper case: buy, Sell
\* and the like pass as BUY and SELL.
C20_ValidationBySideUpperCase ==
    (call.op = "place_order" /\ call.done) =>
        LET bad == \/ call.price <= 0 \/ call.price > 100
                   \/ call.size <= 0
                   \/ upper(call.side) \notin {"BUY", "SELL"}
                   \/ ~TokenOk(call.token_id)
        IN  /\ bad => (call.out.raised /\ call.out.client = <<>>)
            /\ call.out.client # <<>> => ~bad
            /\ ~bad => /\ call.out.client # <<>>
                       /\ call.out.client[1].fn = "get_tick_size"

\* C20 witness: a lower-case side with a digit-string token reached the client,
\* the token in hexadecimal.
C20_Witness ==
    /\ call.op = "place_order" /\ call.done
    /\ call.side = "buy" /\ call.price = 100 /\ call.size = 5
    /\ call.token_id = StrToken(<<"4", "2">>)
    /\ ~call.out.raised
    /\ call.out.client[2].arg.token_id = <<"0", "x", "2", "a">>
    /\ call.out.client[2].arg.side = "BUY"

\* A step of instance i.
StepOf(i) ==
    \/ pair_open(i)
    \/ \E msg \in PairMessages : pair_message(i, msg)
    \/ pair_sell(i)
    \/ pair_error(i)

\* Instance i takes messages: it is connected, open, and not inside a handler.
Receiving(i) ==
    /\ sess[i].connected /\ ~sess[i].ws_closed /\ sess[i].pc = "idle"
    /\ BuyAttempts(sess[i].orders) < MaxBuys

\* C18: a step of one instance, its sell rounds included, leaves every
\* attribute of the other instance as it is; and while one instance is in
\* its sell loop the other one still handles every message it is sent.
C18_SessionsIndependent ==
    /\ [][ \A i \in SessionIds : StepOf(i) =>
              \A j \in SessionIds \ {i} : sess'[j] = sess[j] ]_vars
    /\ [](\A i \in SessionIds : \A j \in SessionIds \ {i} :
              (sess[j].pc = "sell" /\ Receiving(i)) =>
                  \A msg \in PairMessages :
                      (msg.kind = "PONG" => sess[i].pong_count < MaxPongs)
                          => ENABLED pair_message(i, msg))

\* C18 witness: both instances are inside their sell loops at once, at
\* different rounds, so one of them bought while the other one slept; the
\* window has ended for neither handler yet.
C18_Witness ==
    /\ sess[1].pc = "sell" /\ Len(sess[1].orders) = 2
    /\ sess[2].pc = "sell" /\ Len(sess[2].orders) = 3
    /\ sess[1].traded /\ sess[2].traded
    /\ ~sess[1].event_ended /\ ~sess[2].event_ended

\* C21: a resolution either raises or returns four values, the first two
\* being the two token ids (UP, DOWN) of a market of the event, then its
\* condition id and the event's title; it raises whenever a market of the
\* event has a number of token ids other than two, and when the event has
\* no market.
C21_ResolveTwoTokensOrFail ==
    (call.op = "get_clobTokenIds_from_slug" /\ call.done) =>
        LET ms == call.event.markets
            bad == \E i \in 1..Len(ms) : Len(ms[i].clobTokenIds) # 2
        IN  /\ (bad \/ Len(ms) = 0) => call.out.raised
            /\ ~call.out.raised =>
                 /\ Len(call.out.value) = 4
                 /\ \E i \in 1..Len(ms) :
                       /\ Len(ms[i].clobTokenIds) = 2
                       /\ call.out.value[1] = ms[i].clobTokenIds[1]
                       /\ call.out.value[2] = ms[i].clobTokenIds[2]
                       /\ call.out.value[3] = ms[i].conditionId
                 /\ call.out.value[4] = call.event.title

\* C21 witness: an event of two markets whose first market has three token
\* ids was resolved, and failed.
C21_Witness ==
    /\ call.op = "get_clobTokenIds_from_slug" /\ call.done
    /\ Len(call.event.markets) = 2
    /\ Len(call.event.markets[1].clobTokenIds) = 3
    /\ Len(call.event.markets[2].clobTokenIds) = 2
    /\ call.out.raised

\* The earliest quarter-hour boundary strictly after ts.
BoundaryAfter(ts) == ((ts \div 900000) + 1) * 900000

\* C22: for every message timestamp, time_left is the rounded number of
\* seconds from the timestamp to the earliest quarter-hour boundary strictly
\* after it, a value in 0..900, in every minute of the hour.
C22_SecondsToClose ==
    (call.op = "time_left" /\ call.done) =>
        /\ call.out = RoundHalfEven(BoundaryAfter(call.ts) - call.ts)
        /\ call.out \in 0..900

\* C23: a BUY entry whose token id is neither of the market's two causes no
\* order and no ledger row, and the entry after it in the same message is
\* still evaluated: when that entry is one that triggers a BUY, the BUY is
\* submitted while the message is handled.
C23_UnmappedEntrySkipped ==
    [][ \A msg \in TradeMessages :
          LET cs == msg.price_changes
              ns == now_sec(msg.timestamp)
              tl == time_left(msg.timestamp)
              new == (Len(orders) + 1)..Len(orders')
          IN  ( /\ on_message(msg)
                /\ msg.kind = "JSON" /\ ~event_ended
                /\ Len(cs) = 2
                /\ cs[1].side = "BUY" /\ buy_pick(cs[1].asset_id) = "None" )
              =>
              /\ \A k \in new : orders'[k].token_id # cs[1].asset_id
              /\ ( /\ cs[2].side = "BUY" /\ buy_pick(cs[2].asset_id) # "None"
                   /\ ~traded
                   /\ ~bucket_seen(current_sec, ns, seen_pick)[buy_pick(cs[2].asset_id)]
                   /\ tl \in intervals(variant)
                   /\ buy_condition(variant, sell_price, data_dict, tl,
                                    cs[2].best_ask) )
                 => \E k \in new : /\ orders'[k].side = "BUY"
                                   /\ orders'[k].token_id = cs[2].asset_id ]_vars

\* C24: the seen_pick flags are reset only by a message whose second is
\* strictly greater than the second of the current bucket: a structured
\* message of the same or of an earlier second than the last one leaves
\* every flag that is set as it is.
C24_ResetOnlyOnLaterSecond ==
    [][ \A msg \in TradeMessages :
          ( /\ on_message(msg)
            /\ msg.kind = "JSON" /\ ~event_ended
            /\ last_sec # None
            /\ now_sec(msg.timestamp) <= last_sec )
          => \A p \in Picks : seen_pick[p] => seen_pick'[p] ]_vars

\* C25 as stated: two sessions fed the same message sequence under different
\* wall-clock readings have submitted the same BUY and SELL orders.
C25_SameOrdersUnderAnyClock ==
    sess.run[1].orders = sess.run[2].orders

\* C25: two sessions fed the same message sequence under different
\* wall-clock readings have submitted the same BUY and SELL orders as long
\* as neither has rejected a message because its own clock ended the window;
\* their traded flag and de-duplication state agree as well.
C25_SameOrdersUntilWindowEnds ==
    (~sess.run[1].should_stop /\ ~sess.run[2].should_stop) =>
        /\ sess.run[1].orders = sess.run[2].orders
        /\ sess.run[1].traded = sess.run[2].traded
        /\ sess.run[1].seen_pick = sess.run[2].seen_pick
        /\ sess.run[1].current_sec = sess.run[2].current_sec

\* C25 witness: the two sessions read different clocks, one of them in the
\* last second of the window, and both have bought and sold.
C25_Witness ==
    /\ sess.clock[1] # sess.clock[2]
    /\ sess.run[1].event_ended /\ ~sess.run[2].event_ended
    /\ ~sess.run[1].should_stop /\ ~sess.run[2].should_stop
    /\ sess.run[1].traded /\ sess.run[2].traded
    /\ Len(sess.run[2].orders) >= 2

\* C26: with a feed that answers every probe and fair scheduling, a session
\* whose market has stopped emitting structured messages ends (its
\* connection is closed and run_forever returns), and the supervisor starts
\* a new cycle again and again.
C26_SessionsEndAndCyclesGoOn ==
    /\ (sess.up /\ sess.quiet) ~> sess.run.ws_closed
    /\ []<><<alive_start>>_vars

\* C26 witness: in a later cycle, a session whose market went quiet was
\* ended by the fifth consecutive reply.
C26_Witness ==
    /\ sup.r >= 2 /\ sup.pc = "join"
    /\ sess.up /\ sess.quiet
    /\ sess.run.ws_closed /\ sess.run.should_stop
    /\ sess.run.pong_count = PongLimit
    /\ ~sess.run.event_ended

\* The fields the price_changes loop of msg starts from.
LoopStart(msg) ==
    LET ns == now_sec(msg.timestamp)
    IN  [seen_pick |-> bucket_seen(current_sec, ns, seen_pick),
         traded |-> traded, orders |-> orders, ledger |-> ledger,
         evals |-> IF last_sec # ns THEN [p \in Picks |-> 0] ELSE evals,
         last_pass |-> last_pass]

\* Handling msg raises inside the try: json.loads does, or the loop does
\* whatever the gateway answers.
Faulty(msg) ==
    \/ msg.kind = "BAD"
    \/ /\ msg.kind = "JSON"
       /\ \A o \in process_changes(LoopStart(msg), msg.price_changes,
                                   msg.timestamp) : o.raised

\* ... and it raises before any entry was handled to its end.
FaultyAtStart(msg) ==
    \/ msg.kind = "BAD"
    \/ /\ msg.kind = "JSON" /\ Len(msg.price_changes) >= 1
       /\ \A o \in process_change(LoopStart(msg), msg.price_changes[1],
                                  msg.timestamp) : o.raised

swap(p) == IF p = "UP" THEN "DOWN" ELSE IF p = "DOWN" THEN "UP" ELSE p

swap_token(id) ==
    IF id = data[1] THEN data[2] ELSE IF id = data[2] THEN data[1] ELSE id

MirrorEntry(ch) == [ch EXCEPT !.asset_id = swap_token(@)]

MirrorFields(s) ==
    [seen_pick |-> [p \in Picks |-> s.seen_pick[swap(p)]],
     traded |-> s.traded,
     orders |-> [k \in 1..Len(s.orders) |->
                    [s.orders[k] EXCEPT !.token_id = swap_token(@)]],
     ledger |-> [k \in 1..Len(s.ledger) |->
                    [s.ledger[k] EXCEPT !.side = swap(@)]],
     evals |-> [p \in Picks |-> s.evals[swap(p)]],
     last_pass |-> [s.last_pass EXCEPT !.pick = swap(@)]]

MirrorOutcomes(os) ==
    { [st |-> MirrorFields(o.st), raised |-> o.raised] : o \in os }

\* The fields as they stand.
Fields ==
    [seen_pick |-> seen_pick, traded |-> traded, orders |-> orders,
     ledger |-> ledger, evals |-> evals, last_pass |-> last_pass]

\* C28: de-duplication and the decision rule treat UP and DOWN alike: in
\* every state the session reaches, whatever an entry does (skipped as seen,
\* evaluated, BUY submitted, rows written), the same entry for the other
\* token does with UP and DOWN exchanged throughout, whichever side was
\* already seen in the second.
C28_UpDownSymmetric ==
    \A ch \in CoreChanges \cup EdgeChanges : \A ts \in MsgTimes :
        MirrorOutcomes(process_change(Fields, ch, ts))
            = process_change(MirrorFields(Fields), MirrorEntry(ch), ts)

\* C28 witness: in one second an UP entry was evaluated and did not trigger,
\* then a DOWN entry triggered the BUY of the DOWN token.
C28_Witness ==
    /\ seen_pick["UP"] /\ seen_pick["DOWN"]
    /\ evals["UP"] = 1 /\ evals["DOWN"] = 1
    /\ last_pass.pick = "DOWN" /\ last_pass.fresh /\ last_pass.calls > 0
    /\ Len(orders) >= 1
    /\ orders[1].side = "BUY" /\ orders[1].token_id = data[2]
    /\ orders[1].result = "ok" /\ traded

\* C29: fed the same message sequence, with the same threshold table and a
\* sell price that never binds, the single-market and the multi-market
\* session evaluate the same entries of every message and submit their BUYs
\* for the same messages, with the same token and price.
C29_DriversAgree ==
    \A n \in 1..Len(sess.single) :
        /\ sess.single[n].evals = sess.multi[n].evals
        /\ sess.single[n].buys = sess.multi[n].buys

\* The channel type is neither the market channel nor the user channel with
\* credentials.
Unrecognised ==
    ~ \/ sess.channel_type = MARKET_CHANNEL
      \/ sess.channel_type = USER_CHANNEL /\ sess.auth

\* C30: a session opened on an unrecognised channel has sent no subscribe
\* frame, has its stop flag set and its connection closed, and its
\* keep-alive thread never gets to ws.send("PING"): no probe is sent.
C30_UnrecognisedChannelFailsFast ==
    Unrecognised =>
        /\ sess.frames = <<>>
        /\ sess.run.connected =>
              (sess.run.should_stop /\ sess.run.ws_closed)
        /\ sess.thr \in {"none", "test", "done"}
        /\ sess.probes = 0

\* C30 witness: a session on the user channel without credentials was opened
\* and its keep-alive thread has ended.
C30_Witness ==
    /\ sess.channel_type = USER_CHANNEL /\ ~sess.auth
    /\ sess.run.connected /\ sess.run.should_stop /\ sess.run.ws_closed
    /\ sess.thr = "done"

\* C31: in the single-market driver a failed slug resolution is not fatal:
\* the rotation loop is still running after it (at the top of the while loop
\* or going through its body), so a later iteration can resolve a market.
C31_SingleDriverSurvivesFailure ==
    (variant = "single" /\ \E c \in Coins : sup.failed[c]) =>
        sup.pc \in {"next", "resolve"}

\* C32: in the backward scan, the suffix looked up while the counter is r is
\* the starting suffix less 900 * (r - 1), for every r >= 1, also after
\* lookups that failed.
C32_ScanSuffix ==
    \A x \in sup.looked : int(x[2]) = int(sup.start) - 900 * (x[1] - 1)

\* C38: when a historical-scan run has ended, it has written the results
\* file; the file holds every record that was loaded, with its event, suffix
\* and outcome as they were, and every newly found record, in ascending
\* order of suffix.
C38_ResultsFilePreserved ==
    sup.pc \in {"done", "crashed"} =>
        /\ sup.written
        /\ \A k \in 1..Len(sup.loaded) :
              \E j \in 1..Len(sup.file) : sup.file[j] = sup.loaded[k]
        /\ \A k \in 1..Len(sup.records) :
              sup.records[k].suffix # Dash =>
                  \E j \in 1..Len(sup.file) : sup.file[j] = sup.records[k]
        /\ \A i, j \in 1..Len(sup.file) :
              i < j => int(sup.file[i].suffix) <= int(sup.file[j].suffix)

\* The BUY calls the gateway accepted.
Accepted ==
    { k \in 1..Len(orders) : orders[k].side = "BUY" /\ orders[k].result = "ok" }

\* C33: once the gateway has accepted a BUY of the session, traded is true
\* before any further entry is evaluated, also when appending the BUY row
\* raised: no entry is evaluated and no BUY submitted after an accepted BUY,
\* so the gateway never accepts two BUY orders of one session.
C33_AcceptedBuySetsTraded ==
    /\ Accepted # {} => traded
    /\ Cardinality(Accepted) <= 1
    /\ \A k \in Accepted : \A j \in (k + 1)..Len(orders) : orders[j].side # "BUY"

\* The 15-minute window a suffix names, counted from the window of the
\* starting suffix, and the window the wall clock is in.
WindowOf(suffix) == (int(suffix) - int(sup.start)) \div 900
WindowNow == now \div 900000

\* C34: whenever the supervisor starts a session of a cycle after the first,
\* the cycle's suffix names the window the wall clock is in (suffix <= now <
\* suffix + 900); the first cycle starts inside its window, and the loop
\* never runs ahead of the clock.
C34_CycleSuffixIsCurrentWindow ==
    [][ (sup_resolve_ok /\ sup.r > 1) => WindowOf(sup.suffix) = WindowNow ]_vars

\* C35: once a session has set its stop flag it places no order and appends
\* no ledger row, whatever is still delivered to on_message afterwards.
C35_NoOrderAfterStop ==
    [][ \A i \in SessionIds :
          sess[i].should_stop =>
             /\ sess'[i].orders = sess[i].orders
             /\ sess'[i].ledger = sess[i].ledger ]_vars

\* C36: under every interleaving of the keep-alive thread with the callbacks,
\* ws.send("PING") is never called on a connection the session has closed.
C36_NoProbeOnClosedConnection ==
    [][ ping_send => ~ws_closed ]_vars

\* How long before the close of the BUY's window the SELL at instant t is
\* made (ms); negative after the close.
BeforeClose(t) == get_next_quarter(sess.bought_at) - t

\* C37 (as claimed): every SELL of a session is made before the close of the
\* window of its BUY, the third one at least 30 seconds before it.
C37_LastSellThirtySecondsBeforeClose ==
    sess.bought_at # None =>
       /\ \A k \in 1..Len(sess.sold_at) : BeforeClose(sess.sold_at[k]) > 0
       /\ Len(sess.sold_at) = SellRoundsMax =>
             BeforeClose(sess.sold_at[SellRoundsMax]) >= 30000

\* C37 (amended): every SELL of a session is made before the close of the
\* window of its BUY, the third one at least 29.5 seconds before it: the BUY
\* is placed when the rounded time to the close is 120 s or more, which is
\* 119.5 s or more, and the three rounds take 90 s.
C37_SellsBeforeClose ==
    sess.bought_at # None =>
       /\ \A k \in 1..Len(sess.sold_at) : BeforeClose(sess.sold_at[k]) > 0
       /\ Len(sess.sold_at) = SellRoundsMax =>
             BeforeClose(sess.sold_at[SellRoundsMax]) >= 29500

\* C37 witness: a BUY placed 119.5 s before the close, all three SELLs made.
C37_Witness ==
    /\ sess.bought_at = 780500
    /\ Len(sess.sold_at) = SellRoundsMax
    /\ BeforeClose(sess.sold_at[SellRoundsMax]) = 29500

====
